---- MODULE Spec2Model ----
(***************************************************************************)
(* Model of scripts/compose_svg_drawable.py: the path-data tokenizer, the  *)
(* two path interpreters (path_bbox, transform_path_data), the numeric     *)
(* formatting, the composition layout (build_vector_xml) and main().       *)
(*                                                                         *)
(* Numbers.  A Python float is modelled as a decimal fixed-point number:   *)
(* the integer v stands for the real v / Den.  Sum, difference, min, max,  *)
(* doubling and the four-decimal formatting are exact on that grid.  Text  *)
(* is a sequence of one-character strings, so that tokenizing, float() and *)
(* fmt_number are computed character by character.                         *)
(***************************************************************************)
EXTENDS Integers, Sequences, FiniteSets, TLC

Den == 10 ^ 7

\* Python's None, where the other values are tuples (a box, a control point).
None == <<>>

\* cmd = None, before the first command letter; error = None, nothing raised.
NoCmd == ""

NoError == ""

Abs(n) == IF n < 0 THEN -n ELSE n

Min2(a, b) == IF a <= b THEN a ELSE b

Max2(a, b) == IF a >= b THEN a ELSE b

RECURSIVE Pow10(_)
Pow10(n) == IF n <= 0 THEN 1 ELSE 10 * Pow10(n - 1)

RECURSIVE GcdNat(_, _)
GcdNat(a, b) == IF b = 0 THEN a ELSE GcdNat(b, a % b)

Gcd(a, b) == GcdNat(Abs(a), Abs(b))

(***************************************************************************)
(* Characters.                                                             *)
(***************************************************************************)
DigitChars == <<"0", "1", "2", "3", "4", "5", "6", "7", "8", "9">>

IsDigit(c) == \E i \in 1..10 : DigitChars[i] = c

DigitVal(c) == (CHOOSE i \in 1..10 : DigitChars[i] = c) - 1

\* The command letters of the token pattern, line 115 (and 517).
CommandLetters ==
    {"M", "m", "L", "l", "H", "h", "V", "v", "C", "c", "S", "s",
     "Q", "q", "T", "t", "A", "a", "Z", "z"}

\* The letters of the model's alphabet: the command letters, the exponent
\* marks and a letter that is no command.
Letters == CommandLetters \cup {"e", "E", "X", "x"}

\* re.match(r"[A-Za-z]", token), lines 267 and 544.
IsLetterToken(tok) == tok[1] \in Letters

(***************************************************************************)
(* The token pattern                                                       *)
(*   [MmLl...Zz]|[-+]?(?:\d*\.\d+|\d+)(?:[eE][-+]?\d+)?                    *)
(* as re.findall applies it: leftmost match, alternatives in order, and a  *)
(* character at which nothing matches is skipped.                          *)
(***************************************************************************)
RECURSIVE DigitRun(_, _)
DigitRun(s, i) ==
    IF i <= Len(s) /\ IsDigit(s[i]) THEN 1 + DigitRun(s, i + 1) ELSE 0

\* Length of the exponent part (?:[eE][-+]?\d+)? matched at i (0: absent).
ExponentLen(s, i) ==
    IF i <= Len(s) /\ s[i] \in {"e", "E"}
    THEN LET j == IF i + 1 <= Len(s) /\ s[i + 1] \in {"-", "+"}
                  THEN i + 2 ELSE i + 1
             n == DigitRun(s, j)
         IN  IF n >= 1 THEN (j - i) + n ELSE 0
    ELSE 0

\* Length of the numeric literal matched at i (0: no match at i).
NumberLen(s, i) ==
    LET j  == IF s[i] \in {"-", "+"} THEN i + 1 ELSE i
        n1 == DigitRun(s, j)
        n2 == IF j + n1 <= Len(s) /\ s[j + n1] = "."
              THEN DigitRun(s, j + n1 + 1) ELSE 0
        body == IF n2 >= 1 THEN n1 + 1 + n2 ELSE n1
    IN  IF body = 0 THEN 0
        ELSE (j - i) + body + ExponentLen(s, j + body)

RECURSIVE FindAll(_, _)
FindAll(s, i) ==
    IF i > Len(s) THEN <<>>
    ELSE IF s[i] \in CommandLetters
         THEN <<SubSeq(s, i, i)>> \o FindAll(s, i + 1)
         ELSE LET n == NumberLen(s, i)
              IN  IF n = 0 THEN FindAll(s, i + 1)
                  ELSE <<SubSeq(s, i, i + n - 1)>> \o FindAll(s, i + n)

tokenize(path_data) == FindAll(path_data, 1)

(***************************************************************************)
(* float(token) for a token of the pattern above, on the grid.             *)
(***************************************************************************)
RECURSIVE DigitsValue(_, _, _)
\* The value of the n digits of s from i, read as an integer.
DigitsValue(s, i, n) ==
    IF n = 0 THEN 0
    ELSE DigitsValue(s, i, n - 1) * 10 + DigitVal(s[i + n - 1])

RECURSIVE FractionValue(_, _, _, _)
\* The n digits of s from i read as a decimal fraction, in grid units; w is
\* the weight of the first digit.
FractionValue(s, i, n, w) ==
    IF n = 0 \/ w = 0 THEN 0
    ELSE DigitVal(s[i]) * w + FractionValue(s, i + 1, n - 1, w \div 10)

float(tok) ==
    LET neg  == tok[1] = "-"
        j    == IF tok[1] \in {"-", "+"} THEN 2 ELSE 1
        n1   == DigitRun(tok, j)
        dot  == j + n1 <= Len(tok) /\ tok[j + n1] = "."
        n2   == IF dot THEN DigitRun(tok, j + n1 + 1) ELSE 0
        k    == j + n1 + (IF dot THEN 1 + n2 ELSE 0)
        hasE == k <= Len(tok)
        eneg == hasE /\ tok[k + 1] = "-"
        ej   == IF hasE /\ tok[k + 1] \in {"-", "+"} THEN k + 2 ELSE k + 1
        ev   == IF hasE THEN DigitsValue(tok, ej, Len(tok) - ej + 1) ELSE 0
        mant == DigitsValue(tok, j, n1) * Den
                + FractionValue(tok, j + n1 + 1, n2, Den \div 10)
        mag  == IF eneg THEN (IF ev > 9 THEN 0 ELSE mant \div Pow10(ev))
                ELSE mant * Pow10(ev)
    IN  IF neg THEN -mag ELSE mag

\* float(tok) is not zero and its square is: a double's square is 0.0 below
\* 2^-537.5, about 1.5e-162, and the double itself is 0.0 only below 1e-323.
\* Told from the token, whose value the grid cannot hold: an integer part
\* of n1 digits that is not zero, times ten to a power of at most
\* -(n1 + 162) and at least -320.
SquareUnderflows(tok) ==
    LET j    == IF tok[1] \in {"-", "+"} THEN 2 ELSE 1
        n1   == DigitRun(tok, j)
        dot  == j + n1 <= Len(tok) /\ tok[j + n1] = "."
        n2   == IF dot THEN DigitRun(tok, j + n1 + 1) ELSE 0
        k    == j + n1 + (IF dot THEN 1 + n2 ELSE 0)
        ej   == k + 2
        ev   == DigitsValue(tok, ej, Len(tok) - ej + 1)
    IN  /\ k + 2 <= Len(tok)
        /\ tok[k + 1] = "-"
        /\ n1 >= 1
        /\ DigitsValue(tok, j, n1) # 0
        /\ ev >= n1 + 162
        /\ ev <= 320

(***************************************************************************)
(* fmt_number, lines 414-417.                                              *)
(***************************************************************************)
RECURSIVE IntStr(_)
\* str(n) for n >= 0.
IntStr(n) ==
    IF n < 10 THEN <<DigitChars[n + 1]>>
    ELSE IntStr(n \div 10) \o <<DigitChars[(n % 10) + 1]>>

\* round(value): the nearest integer, a tie going to the even one.
round(value) ==
    LET f == value \div Den
        r == value % Den
    IN  IF 2 * r < Den THEN f
        ELSE IF 2 * r > Den THEN f + 1
        ELSE IF f % 2 = 0 THEN f ELSE f + 1

\* |value| in units of the fourth decimal, rounded half to even: the digits
\* that f"{value:.4f}" prints.
Round4(value) ==
    LET u == Den \div 10000
        q == Abs(value) \div u
        r == Abs(value) % u
    IN  IF 2 * r < u THEN q
        ELSE IF 2 * r > u THEN q + 1
        ELSE IF q % 2 = 0 THEN q ELSE q + 1

RECURSIVE rstrip(_, _)
rstrip(s, c) ==
    IF Len(s) > 0 /\ s[Len(s)] = c THEN rstrip(SubSeq(s, 1, Len(s) - 1), c)
    ELSE s

\* The four fraction digits of f"{value:.4f}".
Frac4(q) ==
    <<DigitChars[((q \div 1000) % 10) + 1], DigitChars[((q \div 100) % 10) + 1],
      DigitChars[((q \div 10) % 10) + 1], DigitChars[(q % 10) + 1]>>

fmt_number(value) ==
    IF Abs(value - round(value) * Den) < Den \div 1000000
    THEN LET n == round(value)
         IN  IF n < 0 THEN <<"-">> \o IntStr(-n) ELSE IntStr(n)
    ELSE LET q    == Round4(value)
             text == (IF value < 0 THEN <<"-">> ELSE <<>>)
                     \o IntStr(q \div 10000) \o <<".">> \o Frac4(q)
         IN  rstrip(rstrip(text, "0"), ".")

(***************************************************************************)
(* Scale factors.  A scale (the --scale argument, the cut-out scale) is a  *)
(* ratio <<n, d>> of two integers, d > 0; x * scale is exact on the grid   *)
(* whenever d divides x * n, and is rounded down otherwise.                *)
(***************************************************************************)
\* int(value): truncation toward zero.
int(value) == IF value >= 0 THEN value \div Den ELSE -((-value) \div Den)

RECURSIVE MulDivMod(_, _, _)
\* <<q, r>> with a * b = q * c + r and 0 <= r < c, for a >= 0, b >= 0, c > 0,
\* computed limb by limb so that no product leaves TLC's integers.
MulDivMod(a, b, c) ==
    IF a < 1000 THEN <<(a * b) \div c, (a * b) % c>>
    ELSE LET hi == MulDivMod(a \div 1000, b, c)
             t  == hi[2] * 1000 + (a % 1000) * b
         IN  <<hi[1] * 1000 + t \div c, t % c>>

\* floor(g * s / c) for g >= 0, c > 0 and s of either sign.
MulDiv(g, s, c) ==
    IF s >= 0 THEN MulDivMod(g, s, c)[1]
    ELSE LET qr == MulDivMod(g, -s, c)
         IN  IF qr[2] = 0 THEN -qr[1] ELSE -qr[1] - 1

\* x * scale for a grid number v and a ratio k, rounded down.
Mul(v, k) == IF v >= 0 THEN MulDiv(v, k[1], k[2]) ELSE MulDiv(-v, -k[1], k[2])

\* Whether g * s / c is a whole number of grid units.
MulDivExact(g, s, c) == MulDivMod(g, Abs(s), c)[2] = 0

RECURSIVE IsqrtFrom(_, _)
IsqrtFrom(n, r) == IF (r + 1) * (r + 1) > n THEN r ELSE IsqrtFrom(n, r + 1)

\* math.sqrt(n), rounded down to a whole number.
Isqrt(n) == IsqrtFrom(n, 0)

\* The ratio n / d in lowest terms with a positive denominator.
RatioBy(n, d, g) ==
    IF d < 0 THEN <<(-n) \div g, (-d) \div g>> ELSE <<n \div g, d \div g>>

Ratio(n, d) == RatioBy(n, d, Gcd(n, d))

\* 0 < t < 1 for a ratio t.
InOpenUnit(t) == 0 < t[1] /\ t[1] < t[2]

(***************************************************************************)
(* Bounding-box algebra, lines 80-102.  A box is <<minX, minY, maxX, maxY>>*)
(* or None.                                                                *)
(***************************************************************************)
bbox_union(bbox, other) ==
    IF other = None THEN bbox
    ELSE IF bbox = None THEN other
    ELSE <<Min2(bbox[1], other[1]), Min2(bbox[2], other[2]),
           Max2(bbox[3], other[3]), Max2(bbox[4], other[4])>>

bbox_translate(bbox, dx, dy) ==
    IF bbox = None THEN None
    ELSE <<bbox[1] + dx, bbox[2] + dy, bbox[3] + dx, bbox[4] + dy>>

bbox_scale(bbox, scale) ==
    IF bbox = None THEN None
    ELSE <<Mul(bbox[1], scale), Mul(bbox[2], scale),
           Mul(bbox[3], scale), Mul(bbox[4], scale)>>

(***************************************************************************)
(* Curve math, lines 143-205.  The roots of the derivative are ratios      *)
(* <<n, d>>; the coefficients are divided by their common divisor before   *)
(* the discriminant is formed, which leaves the roots unchanged.  The      *)
(* integer arithmetic follows a curve exactly when the numbers stay small: *)
(* the reduced coefficients and offsets within SmallCoefficient, the       *)
(* parameters of the extrema with denominators within SmallDenominator,    *)
(* the roots rational and the extreme points on the grid.  The operators   *)
(* ending in _exact say whether that is so; where it is not, the interior  *)
(* extrema are left out and the run is marked inexact.                     *)
(***************************************************************************)
SmallCoefficient == 400

SmallDenominator == 8

Small(s) == \A i \in 1..Len(s) : Abs(s[i]) <= SmallCoefficient

RECURSIVE SeqGcd(_)
SeqGcd(s) == IF Len(s) = 0 THEN 0 ELSE Gcd(s[1], SeqGcd(Tail(s)))

DividedBy(s, g) ==
    IF g = 0 THEN <<0>> \o s ELSE <<g>> \o [i \in 1..Len(s) |-> s[i] \div g]

\* <<g>> \o s / g for the common divisor g of the numbers s.
Reduced(s) == DividedBy(s, SeqGcd(s))

\* a, b and c of cubic_extrema, lines 157-159, reduced.
cubic_coeffs(p0, p1, p2, p3) ==
    Tail(Reduced(<<-p0 + 3 * p1 - 3 * p2 + p3, 2 * (p0 - 2 * p1 + p2), p1 - p0>>))

\* Lines 163-164, 172 and 182: a parameter counts when 0 < t < 1.
InUnit(t) == IF InOpenUnit(t) THEN <<t>> ELSE <<>>

\* Lines 170-171.
roots_from(k, root) ==
    InUnit(Ratio(-k[2] + root, 2 * k[1])) \o InUnit(Ratio(-k[2] - root, 2 * k[1]))

\* Lines 166-169.
roots_with(k, disc) == IF disc >= 0 THEN roots_from(k, Isqrt(disc)) ELSE <<>>

\* Lines 160-175, for the coefficients k.
roots(k) ==
    IF ~Small(k) THEN <<>>
    ELSE IF k[1] = 0
    THEN IF k[2] # 0 THEN InUnit(Ratio(-k[3], k[2])) ELSE <<>>
    ELSE roots_with(k, k[2] * k[2] - 4 * k[1] * k[3])

cubic_extrema(p0, p1, p2, p3) == roots(cubic_coeffs(p0, p1, p2, p3))

IsSquare(n) == Isqrt(n) * Isqrt(n) = n

roots_exact(k) ==
    /\ Small(k)
    /\ k[1] = 0 \/ k[2] * k[2] - 4 * k[1] * k[3] < 0
                \/ IsSquare(k[2] * k[2] - 4 * k[1] * k[3])

cubic_extrema_exact(p0, p1, p2, p3) == roots_exact(cubic_coeffs(p0, p1, p2, p3))

\* The offsets of the later control points from p0, with their common divisor
\* g taken out: <<g, (p1 - p0) / g, ...>>.
offsets(p0, ps) == Reduced([i \in 1..Len(ps) |-> ps[i] - p0])

\* The Bernstein sum of the offsets o at t = n / (n + m), over d = (n + m)^3
\* (the weights add up to 1, so the point is p0 plus the sum).
cubic_terms(o, n, m) ==
    <<o[1], 3 * m * m * n * o[2] + 3 * m * n * n * o[3] + n * n * n * o[4],
      (n + m) * (n + m) * (n + m)>>

cubic_point_terms(p0, p1, p2, p3, t) ==
    cubic_terms(offsets(p0, <<p1, p2, p3>>), t[1], t[2] - t[1])

\* g * s / d for terms <<g, s, d>>.
TermsValue(k) == MulDiv(k[1], k[2], k[3])

TermsExact(k) == MulDivExact(k[1], k[2], k[3])

\* One coordinate of cubic_point, lines 143-150.
cubic_point(p0, p1, p2, p3, t) == p0 + TermsValue(cubic_point_terms(p0, p1, p2, p3, t))

\* t of quadratic_extrema, lines 178-185.
quadratic_extrema(p0, p1, p2) ==
    IF p0 - 2 * p1 + p2 = 0 THEN <<>> ELSE InUnit(Ratio(p0 - p1, p0 - 2 * p1 + p2))

quadratic_terms(o, n, m) ==
    <<o[1], 2 * m * n * o[2] + n * n * o[3], (n + m) * (n + m)>>

quadratic_point_terms(p0, p1, p2, t) ==
    quadratic_terms(offsets(p0, <<p1, p2>>), t[1], t[2] - t[1])

\* One coordinate of quadratic_point, lines 152-154.
quadratic_point(p0, p1, p2, t) == p0 + TermsValue(quadratic_point_terms(p0, p1, p2, t))

RECURSIVE SeqMin(_)
SeqMin(s) == IF Len(s) = 1 THEN s[1] ELSE Min2(s[1], SeqMin(Tail(s)))

RECURSIVE SeqMax(_)
SeqMax(s) == IF Len(s) = 1 THEN s[1] ELSE Max2(s[1], SeqMax(Tail(s)))

\* The box of the points with abscissas xs and ordinates ys, lines 195, 205.
Hull(xs, ys) == <<SeqMin(xs), SeqMin(ys), SeqMax(xs), SeqMax(ys)>>

cubic_points_exact(p0, p1, p2, p3, ts) ==
    \A i \in 1..Len(ts) :
       /\ ts[i][2] <= SmallDenominator
       /\ TermsExact(cubic_point_terms(p0, p1, p2, p3, ts[i]))

cubic_axis_exact(p0, p1, p2, p3) ==
    /\ cubic_extrema_exact(p0, p1, p2, p3)
    /\ Small(Tail(offsets(p0, <<p1, p2, p3>>)))
    /\ cubic_points_exact(p0, p1, p2, p3, cubic_extrema(p0, p1, p2, p3))

cubic_axis_points(p0, p1, p2, p3, ts) ==
    <<p0, p3>> \o [i \in 1..Len(ts) |-> cubic_point(p0, p1, p2, p3, ts[i])]

\* xs (or ys) of cubic_bbox, lines 189-194.
cubic_axis(p0, p1, p2, p3) ==
    IF cubic_axis_exact(p0, p1, p2, p3)
    THEN cubic_axis_points(p0, p1, p2, p3, cubic_extrema(p0, p1, p2, p3))
    ELSE <<p0, p3>>

cubic_bbox(bbox, x0, y0, x1, y1, x2, y2, x3, y3) ==
    bbox_union(bbox, Hull(cubic_axis(x0, x1, x2, x3), cubic_axis(y0, y1, y2, y3)))

quadratic_points_exact(p0, p1, p2, ts) ==
    \A i \in 1..Len(ts) :
       /\ ts[i][2] <= SmallDenominator
       /\ TermsExact(quadratic_point_terms(p0, p1, p2, ts[i]))

quadratic_axis_exact(p0, p1, p2) ==
    /\ Small(Tail(offsets(p0, <<p1, p2>>)))
    /\ quadratic_points_exact(p0, p1, p2, quadratic_extrema(p0, p1, p2))

quadratic_axis_points(p0, p1, p2, ts) ==
    <<p0, p2>> \o [i \in 1..Len(ts) |-> quadratic_point(p0, p1, p2, ts[i])]

\* xs (or ys) of quadratic_bbox, lines 199-204.
quadratic_axis(p0, p1, p2) ==
    IF quadratic_axis_exact(p0, p1, p2)
    THEN quadratic_axis_points(p0, p1, p2, quadratic_extrema(p0, p1, p2))
    ELSE <<p0, p2>>

quadratic_bbox(bbox, x0, y0, x1, y1, x2, y2) ==
    bbox_union(bbox, Hull(quadratic_axis(x0, x1, x2), quadratic_axis(y0, y1, y2)))

\* arc_bbox, lines 207-263.  With a zero radius the arc is the straight
\* line.  Otherwise the box is the union of 21 sampled points; the first and
\* the last sample are the two end points and the 19 between them need sine
\* and cosine, which the grid does not have: the box modelled is the box of
\* the end points, a lower bound of the box the code returns.
arc_bbox(bbox, x0, y0, rx, ry, x1, y1) ==
    bbox_union(bbox, <<Min2(x0, x1), Min2(y0, y1), Max2(x0, x1), Max2(y0, y1)>>)

\* arc_bbox, lines 209-225, for the radius tokens rx and ry: neither radius
\* is zero, so the straight-line branch of line 209 is not taken, and
\* rx * rx or ry * ry is 0.0, so a division of line 225 raises
\* ZeroDivisionError.
arc_divides_by_zero(rx, ry) ==
    \/ SquareUnderflows(rx) /\ (SquareUnderflows(ry) \/ float(ry) # 0)
    \/ SquareUnderflows(ry) /\ float(rx) # 0

(***************************************************************************)
(* The interpreter state.  A run of path_bbox or of transform_path_data is *)
(* a record of the function's locals (tokens, index, cmd, x, y, start_x,   *)
(* start_y, last_cubic, last_quad, and bbox or out) with                   *)
(*   pc     "call" (called), "loop" (in the while loop), "returned" or     *)
(*          "raised",                                                      *)
(*   error  the exception raised,                                          *)
(*   iters  the number of passes through the loop body so far,             *)
(*   segs   the segments interpreted so far, each with the command in      *)
(*          force, the cursor it started from and its resolved absolute    *)
(*          numbers (history, not a local of the code),                    *)
(*   exact  whether every curve extremum so far was exact on the grid.     *)
(* index counts the consumed tokens, as in the code; tokens[index + 1] is  *)
(* the code's tokens[index].                                               *)
(***************************************************************************)
Seg(st, pts) == [cmd |-> st.cmd, from |-> <<st.x, st.y>>, pts |-> pts]

Raise(st, err) == [st EXCEPT !.pc = "raised", !.error = err]

\* What reading n numbers at the current index meets first: "ok", the end of
\* the tokens, or a command letter (float() of a letter raises ValueError).
RECURSIVE ReadStatus(_, _, _)
ReadStatus(tokens, index, n) ==
    IF n = 0 THEN "ok"
    ELSE IF index >= Len(tokens) THEN "end"
    ELSE IF IsLetterToken(tokens[index + 1]) THEN "letter"
    ELSE ReadStatus(tokens, index + 1, n - 1)

\* The k-th number read from the current index on.
Num(st, k) == float(st.tokens[st.index + k])

\* The loop test of line 265 (and 542), after a pass through the body.
Continue(st) ==
    IF st.pc = "loop" /\ st.index >= Len(st.tokens)
    THEN [st EXCEPT !.pc = "returned"]
    ELSE st

\* Lines 118-119 (and 520-521): without a token the call returns at once,
\* None or the empty string; with one it enters its loop.
Enter(st) == [st EXCEPT !.pc = IF st.tokens = <<>> THEN "returned" ELSE "loop"]

\* Lines 266-271 (and 543-548): a letter token becomes the command in force.
TakeCommand(st) ==
    IF IsLetterToken(st.tokens[st.index + 1])
    THEN [st EXCEPT !.cmd = st.tokens[st.index + 1][1], !.index = @ + 1, !.iters = @ + 1]
    ELSE IF st.cmd = NoCmd
         THEN Raise([st EXCEPT !.iters = @ + 1], "ValueError: Path data missing command")
         ELSE [st EXCEPT !.iters = @ + 1]

\* The number of operands each command reads.
Arity(cmd) ==
    CASE cmd \in {"M", "m", "L", "l", "T", "t"} -> 2
      [] cmd \in {"H", "h", "V", "v"} -> 1
      [] cmd \in {"C", "c"} -> 6
      [] cmd \in {"S", "s", "Q", "q"} -> 4
      [] cmd \in {"A", "a"} -> 7
      [] OTHER -> 0

\* What reading the operands of the command in force meets.
OperandStatus(st) == ReadStatus(st.tokens, st.index, Arity(st.cmd))

\* A mutant of reflected: the cursor is mirrored in the remembered point.
reflected_about_last(cursor, last, i) == IF last # None THEN 2 * last[i] - cursor ELSE cursor

\* The first control point of a shorthand curve on one axis, lines 344-349 and
\* 378-383 (633-638 and 681-686): the mirror image of the remembered control
\* point in the cursor, or the cursor when nothing is remembered.  last is
\* last_cubic (or last_quad), i the axis, cursor that axis of the cursor.
reflected(cursor, last, i) == IF last # None THEN 2 * cursor - last[i] ELSE cursor

\* read_number of path_bbox, lines 131-137.
bbox_read_error(status) ==
    IF status = "end" THEN "ValueError: Unexpected end of path data"
    ELSE "ValueError: could not convert string to float"

\* path_bbox, lines 113-129: the tokens and the initial locals.
path_bbox_call(data) ==
    [tokens |-> tokenize(data), index |-> 0, cmd |-> NoCmd,
     start_x |-> 0, start_y |-> 0, x |-> 0, y |-> 0,
     last_cubic |-> None, last_quad |-> None, bbox |-> None,
     pc |-> "call",
     error |-> NoError, iters |-> 0, segs |-> <<>>, exact |-> TRUE]

add_point(bbox, px, py) == bbox_union(bbox, <<px, py, px, py>>)

\* The operands of the command in force, read from the current index on
\* (the read_number() calls of one branch).
Operands(st) == [k \in 1..Arity(st.cmd) |-> Num(st, k)]

IsRelative(cmd) == cmd \in {"m", "l", "h", "v", "c", "s", "q", "t", "a"}

\* What a relative coordinate is added to: the cursor, or nothing.
OriginX(st) == IF IsRelative(st.cmd) THEN st.x ELSE 0

OriginY(st) == IF IsRelative(st.cmd) THEN st.y ELSE 0

\* The absolute numbers of one command, as both interpreters resolve them
\* from its operands a: the target of a move, a line or a close, the control
\* points and the end point of a curve (a shorthand curve's first control
\* point reflected), the radii, rotation, flags and end point of an arc.
Resolve(st, a, dx, dy) ==
    CASE st.cmd \in {"M", "m", "L", "l"} -> <<a[1] + dx, a[2] + dy>>
      [] st.cmd \in {"Z", "z"} -> <<st.start_x, st.start_y>>
      [] st.cmd \in {"H", "h"} -> <<a[1] + dx, st.y>>
      [] st.cmd \in {"V", "v"} -> <<st.x, a[1] + dy>>
      [] st.cmd \in {"C", "c"} ->
           <<a[1] + dx, a[2] + dy, a[3] + dx, a[4] + dy, a[5] + dx, a[6] + dy>>
      [] st.cmd \in {"S", "s"} ->
           <<reflected(st.x, st.last_cubic, 1), reflected(st.y, st.last_cubic, 2),
             a[1] + dx, a[2] + dy, a[3] + dx, a[4] + dy>>
      [] st.cmd \in {"Q", "q"} -> <<a[1] + dx, a[2] + dy, a[3] + dx, a[4] + dy>>
      [] st.cmd \in {"T", "t"} ->
           <<reflected(st.x, st.last_quad, 1), reflected(st.y, st.last_quad, 2),
             a[1] + dx, a[2] + dy>>
      [] st.cmd \in {"A", "a"} ->
           <<a[1], a[2], a[3], int(a[4]), int(a[5]), a[6] + dx, a[7] + dy>>
      [] OTHER -> <<>>

\* A mutant of Advance: a command that is no cubic curve leaves last_cubic
\* as it was.
Advance_remembering(st, pts) ==
    [st EXCEPT !.index = @ + Arity(st.cmd),
               !.x = pts[Len(pts) - 1],
               !.y = pts[Len(pts)],
               !.start_x = IF st.cmd \in {"M", "m"} THEN pts[1] ELSE @,
               !.start_y = IF st.cmd \in {"M", "m"} THEN pts[2] ELSE @,
               !.cmd = IF @ = "M" THEN "L" ELSE IF @ = "m" THEN "l" ELSE @,
               !.last_cubic = IF st.cmd \in {"C", "c", "S", "s"}
                              THEN <<pts[3], pts[4]>> ELSE @,
               !.last_quad = IF st.cmd \in {"Q", "q", "T", "t"}
                             THEN <<pts[1], pts[2]>> ELSE None,
               !.segs = Append(@, Seg(st, pts))]

\* The locals both interpreters update alike after a command with the
\* resolved numbers pts: the cursor, the sub-path start and the implicit
\* command after a move, the remembered control points.
Advance(st, pts) ==
    [st EXCEPT !.index = @ + Arity(st.cmd),
               !.x = pts[Len(pts) - 1],
               !.y = pts[Len(pts)],
               !.start_x = IF st.cmd \in {"M", "m"} THEN pts[1] ELSE @,
               !.start_y = IF st.cmd \in {"M", "m"} THEN pts[2] ELSE @,
               !.cmd = IF @ = "M" THEN "L" ELSE IF @ = "m" THEN "l" ELSE @,
               !.last_cubic = IF st.cmd \in {"C", "c", "S", "s"}
                              THEN <<pts[3], pts[4]>> ELSE None,
               !.last_quad = IF st.cmd \in {"Q", "q", "T", "t"}
                             THEN <<pts[1], pts[2]>> ELSE None,
               !.segs = Append(@, Seg(st, pts))]

\* A mutant of line_box: the box of a line is its end point only.
line_box_end(x, y, x1, y1) == <<x1, y1, x1, y1>>

\* The box of the line from (x, y) to (x1, y1), lines 298-301, 307-310 and
\* 315-318.
line_box(x, y, x1, y1) == <<Min2(x, x1), Min2(y, y1), Max2(x, x1), Max2(y, y1)>>

\* The box after a command, lines 273-407.
bbox_after(st, pts) ==
    CASE st.cmd \in {"M", "m", "Z", "z"} -> add_point(st.bbox, pts[1], pts[2])
      [] st.cmd \in {"L", "l", "H", "h", "V", "v"} ->
           bbox_union(st.bbox, line_box(st.x, st.y, pts[1], pts[2]))
      [] st.cmd \in {"C", "c", "S", "s"} ->
           cubic_bbox(st.bbox, st.x, st.y, pts[1], pts[2], pts[3], pts[4], pts[5], pts[6])
      [] st.cmd \in {"Q", "q", "T", "t"} ->
           quadratic_bbox(st.bbox, st.x, st.y, pts[1], pts[2], pts[3], pts[4])
      [] OTHER -> arc_bbox(st.bbox, st.x, st.y, pts[1], pts[2], pts[6], pts[7])

\* Whether bbox_after is the box the code computes, or a box within it.
exact_after(st, pts) ==
    CASE st.cmd \in {"C", "c", "S", "s"} ->
           /\ cubic_axis_exact(st.x, pts[1], pts[3], pts[5])
           /\ cubic_axis_exact(st.y, pts[2], pts[4], pts[6])
      [] st.cmd \in {"Q", "q", "T", "t"} ->
           /\ quadratic_axis_exact(st.x, pts[1], pts[3])
           /\ quadratic_axis_exact(st.y, pts[2], pts[4])
      [] st.cmd \in {"A", "a"} -> pts[1] = 0 \/ pts[2] = 0
      [] OTHER -> TRUE

path_bbox_execute(st, pts) ==
    [Advance(st, pts) EXCEPT !.bbox = bbox_after(st, pts),
                             !.exact = @ /\ exact_after(st, pts)]

\* The command dispatch of path_bbox, lines 273-409, for a command whose
\* operands are all there.
path_bbox_command(st) ==
    IF st.cmd \in {"A", "a"} /\ arc_divides_by_zero(st.tokens[st.index + 1], st.tokens[st.index + 2])
    THEN Raise(st, "ZeroDivisionError: float division by zero")
    ELSE IF st.cmd \in CommandLetters
    THEN path_bbox_execute(st, Resolve(st, Operands(st), OriginX(st), OriginY(st)))
    ELSE Raise(st, "ValueError: Unsupported SVG path command")

\* One pass through the body of the while loop of path_bbox, lines 266-409,
\* and the loop test that follows it.
path_bbox_body(s0, status) ==
    IF s0.pc = "raised" THEN s0
    ELSE IF status # "ok" THEN Raise(s0, bbox_read_error(status))
    ELSE Continue(path_bbox_command(s0))

path_bbox_iter(st) ==
    IF st.pc = "call" THEN Enter(st)
    ELSE path_bbox_body(TakeCommand(st), OperandStatus(TakeCommand(st)))

(***************************************************************************)
(* transform_path_data, lines 515-726.  scale is a ratio; out is the list  *)
(* of emitted commands, each a text.                                       *)
(***************************************************************************)
\* A mutant of transform_y: the translation along x is added to y.
transform_y_swapped(st, py) == Mul(py, st.scale) + st.translate_x

transform_x(st, px) == Mul(px, st.scale) + st.translate_x

transform_y(st, py) == Mul(py, st.scale) + st.translate_y

\* A mutant of Pair: the two numbers are written without a separator.
Pair_joined(a, b) == fmt_number(a) \o fmt_number(b)

\* f"{fmt_number(a)} {fmt_number(b)}"
Pair(a, b) == fmt_number(a) \o <<" ">> \o fmt_number(b)

\* str(n) for an integer n of either sign.
str(n) == IF n < 0 THEN <<"-">> \o IntStr(-n) ELSE IntStr(n)

\* read_number of transform_path_data, lines 533-537: tokens[index] past the
\* end raises IndexError.
transform_read_error(status) ==
    IF status = "end" THEN "IndexError: list index out of range"
    ELSE "ValueError: could not convert string to float"

transform_path_data_call(data, scale, translate_x, translate_y) ==
    [tokens |-> tokenize(data), index |-> 0, cmd |-> NoCmd,
     x |-> 0, y |-> 0, start_x |-> 0, start_y |-> 0,
     last_cubic |-> None, last_quad |-> None, out |-> <<>>,
     scale |-> scale, translate_x |-> translate_x, translate_y |-> translate_y,
     pc |-> "call",
     error |-> NoError, iters |-> 0, segs |-> <<>>]

RECURSIVE Pairs(_, _, _, _)
\* The transformed points pts[i], pts[i + 1] and the n - 1 after it, each as
\* Pair and separated by a space.
Pairs(st, pts, i, n) ==
    Pair(transform_x(st, pts[i]), transform_y(st, pts[i + 1]))
    \o (IF n = 1 THEN <<>> ELSE <<" ">> \o Pairs(st, pts, i + 2, n - 1))

\* A mutant of emitted: the command is written with the letter it was read
\* with, so a relative or a one-coordinate command keeps its letter.
emitted_with_its_letter(st, pts) ==
    CASE st.cmd \in {"Z", "z"} -> <<st.cmd>>
      [] st.cmd \in {"A", "a"} ->
           <<st.cmd>> \o Pair(Mul(pts[1], st.scale), Mul(pts[2], st.scale))
           \o <<" ">> \o fmt_number(pts[3]) \o <<" ">> \o str(pts[4])
           \o <<" ">> \o str(pts[5]) \o <<" ">> \o Pairs(st, pts, 6, 1)
      [] OTHER -> <<st.cmd>> \o Pairs(st, pts, 1, Len(pts) \div 2)

\* The text a command appends to out, lines 550-722.
emitted(st, pts) ==
    CASE st.cmd \in {"M", "m"} -> <<"M">> \o Pairs(st, pts, 1, 1)
      [] st.cmd \in {"Z", "z"} -> <<"Z">>
      [] st.cmd \in {"L", "l", "H", "h", "V", "v"} -> <<"L">> \o Pairs(st, pts, 1, 1)
      [] st.cmd \in {"C", "c", "S", "s"} -> <<"C">> \o Pairs(st, pts, 1, 3)
      [] st.cmd \in {"Q", "q", "T", "t"} -> <<"Q">> \o Pairs(st, pts, 1, 2)
      [] OTHER -> <<"A">> \o Pair(Mul(pts[1], st.scale), Mul(pts[2], st.scale))
                  \o <<" ">> \o fmt_number(pts[3]) \o <<" ">> \o str(pts[4])
                  \o <<" ">> \o str(pts[5]) \o <<" ">> \o Pairs(st, pts, 6, 1)

transform_execute(st, pts) == [Advance(st, pts) EXCEPT !.out = Append(@, emitted(st, pts))]

\* The command dispatch of transform_path_data, lines 550-724.
transform_command(st) ==
    IF st.cmd \in CommandLetters
    THEN transform_execute(st, Resolve(st, Operands(st), OriginX(st), OriginY(st)))
    ELSE Raise(st, "ValueError: Unsupported SVG path command")

\* One pass through the body of the while loop of transform_path_data, lines
\* 543-724, and the loop test that follows it.
transform_body(s0, status) ==
    IF s0.pc = "raised" THEN s0
    ELSE IF status # "ok" THEN Raise(s0, transform_read_error(status))
    ELSE Continue(transform_command(s0))

transform_iter(st) ==
    IF st.pc = "call" THEN Enter(st)
    ELSE transform_body(TakeCommand(st), OperandStatus(TakeCommand(st)))

RECURSIVE Join(_)
\* " ".join(out), line 726.
Join(out) ==
    IF Len(out) = 0 THEN <<>>
    ELSE IF Len(out) = 1 THEN out[1]
    ELSE out[1] \o <<" ">> \o Join(Tail(out))

(***************************************************************************)
(* The inputs of the path interpreters.  A path-data string is built from  *)
(* at most MaxCmds pieces of the list Pieces, separated by one space.      *)
(***************************************************************************)
MaxCmds == 2

\* How many passes through a loop body beyond the number of tokens a run is
\* followed for (a run that consumed a token in every pass needs none).
MaxSpin == 2

Pieces ==
    <<
       <<"M", "1", " ", "2">>,   \* M1 2: absolute move
       <<"m", "3", "-", "1">>,   \* m3-1: relative move, the second number starting at its sign
       <<"L", "1", "e", "1", " ", ".", "5">>,   \* L1e1 .5: absolute line, an exponent and a leading point
       <<"l", "-", "2", " ", "1">>,   \* l-2 1: relative line
       <<"H", "5">>,   \* H5: absolute horizontal
       <<"h", "-", "1", ".", "5">>,   \* h-1.5: relative horizontal
       <<"V", "3">>,   \* V3: absolute vertical
       <<"v", "2">>,   \* v2: relative vertical
       <<"Z">>,   \* Z: close
       <<"z">>,   \* z: close
       <<"2", " ", "3">>,   \* 2 3: a bare coordinate pair
       <<"7">>,   \* 7: a bare number
       <<"X">>,   \* X: a letter that is no command
       <<"M", ".", "0", "0", "0", "0", "4", " ", "0">>,   \* M.00004 0: a coordinate with five decimals
       <<"c", "4", " ", "4", " ", "0", " ", "4", " ", "4", " ", "0">>,   \* c4 4 0 4 4 0: relative cubic
       <<"s", "0", " ", "0", " ", "4", " ", "-", "4">>,   \* s0 0 4 -4: relative smooth cubic
       <<"q", "2", " ", "4", " ", "4", " ", "0">>,   \* q2 4 4 0: relative quadratic
       <<"t", "4", " ", "0">>,   \* t4 0: relative smooth quadratic
       <<"C", " ", "0", ",", "0", " ", "1", "0", ",", "0", " ", "1", "0", ",", "1", "0", " ", "S", " ", "1", "0", ",", "2", "0", " ", "0", ",", "2", "0">>,   \* C 0,0 10,0 10,10 S 10,20 0,20: the spec's shorthand example
       <<"C", " ", "0", ",", "0", " ", "1", "0", ",", "0", " ", "1", "0", ",", "1", "0", " ", "C", " ", "1", "0", ",", "2", "0", " ", "1", "0", ",", "2", "0", " ", "0", ",", "2", "0">>,   \* C 0,0 10,0 10,10 C 10,20 10,20 0,20: its expanded form
       <<"A", "2", " ", "2", " ", "0", " ", "1", " ", "0", " ", "4", " ", "0">>,   \* A2 2 0 1 0 4 0: arc
       <<"h", "-", ".", "0", "0", "0", "0", "4">>,   \* h-.00004: relative horizontal by less than a ten-thousandth
       <<"A", "1", "e", "-", "2", "0", "0", " ", "1", " ", ".", "0", "0", "0", "0", "4", " ", "0", " ", "0", " ", "1", " ", "1">>    \* A1e-200 1 .00004 0 0 1 1: arc with a radius whose square underflows and a rotation with five decimals
    >>

ShorthandExample == Pieces[19]

ExpandedExample == Pieces[20]

RECURSIVE PathsOf(_)
\* The strings built from exactly n pieces.
PathsOf(n) ==
    IF n = 0 THEN {<<>>}
    ELSE IF n = 1 THEN {Pieces[i] : i \in 1..Len(Pieces)}
    ELSE {p \o <<" ">> \o Pieces[i] : p \in PathsOf(n - 1), i \in 1..Len(Pieces)}

Paths == UNION {PathsOf(n) : n \in 0..MaxCmds}

\* The (scale, translate_x, translate_y) arguments of transform_path_data.
Transforms ==
    {<<<<1, 1>>, 0, 0>>,
     <<<<1, 2>>, 3 * Den, -(3 * Den) \div 2>>,
     <<<<2, 1>>, -Den, Den \div 2>>}

\* A run is followed while it is in its loop and has not spun past its tokens.
Running(st) == st.pc = "call" \/ (st.pc = "loop" /\ st.iters < Len(st.tokens) + MaxSpin)

\* No run yet.
Idle == [path_bbox_call(<<>>) EXCEPT !.pc = "idle"]

RECURSIVE path_bbox_run(_)
\* The run of path_bbox from st on, as far as it is followed.
path_bbox_run(st) == IF Running(st) THEN path_bbox_run(path_bbox_iter(st)) ELSE st

RECURSIVE transform_run(_)
\* The run of transform_path_data from st on, as far as it is followed.
transform_run(st) == IF Running(st) THEN transform_run(transform_iter(st)) ELSE st

(***************************************************************************)
(* parse_svg, lines 14-77.  A document is what ElementTree finds in the    *)
(* file: whether it is well-formed, the width, height and viewBox          *)
(* attributes of the root (None when absent) and the d attribute of every  *)
(* path element, in document order (None when absent).  An optional number *)
(* is None or <<v>>.                                                       *)
(***************************************************************************)
RECURSIVE LengthMatch(_, _)
\* re.search(r"[-+]?[0-9]*\.?[0-9]+", value), lines 17-19: the leftmost match
\* from position i on, or None.
LengthMatchAt(s, i, j) ==
    IF j + DigitRun(s, j) <= Len(s) /\ s[j + DigitRun(s, j)] = "."
       /\ DigitRun(s, j + DigitRun(s, j) + 1) >= 1
    THEN SubSeq(s, i, j + DigitRun(s, j) + DigitRun(s, j + DigitRun(s, j) + 1))
    ELSE IF DigitRun(s, j) >= 1 THEN SubSeq(s, i, j + DigitRun(s, j) - 1)
    ELSE LengthMatch(s, i + 1)

LengthMatch(s, i) ==
    IF i > Len(s) THEN None
    ELSE LengthMatchAt(s, i, IF s[i] \in {"-", "+"} THEN i + 1 ELSE i)

Optional(text) == IF text = None THEN None ELSE <<float(text)>>

\* parse_length, lines 14-20.
parse_length(value) == IF value = None THEN None ELSE Optional(LengthMatch(value, 1))

RECURSIVE split(_, _)
\* viewbox.replace(",", " ").split(), line 25: the maximal runs of
\* characters that are neither a blank nor a comma, from position i on.
WordLen(s, i, n) == IF n = 0 THEN Len(s) - i + 1 ELSE n - 1

RECURSIVE Blank(_, _)
\* The distance from position i to the next blank or comma of s, plus one
\* (0: there is none).
Blank(s, i) ==
    IF i > Len(s) THEN 0
    ELSE IF s[i] \in {" ", ","} THEN 1
    ELSE IF Blank(s, i + 1) = 0 THEN 0 ELSE 1 + Blank(s, i + 1)

split(s, i) ==
    IF i > Len(s) THEN <<>>
    ELSE IF s[i] \in {" ", ","} THEN split(s, i + 1)
    ELSE <<SubSeq(s, i, i + WordLen(s, i, Blank(s, i)) - 1)>>
         \o split(s, i + WordLen(s, i, Blank(s, i)))

\* Whether float(p) accepts the text p.
IsFloat(p) == p # <<>> /\ NumberLen(p, 1) = Len(p)

\* parse_viewbox, lines 23-31, for the parts of a viewBox: <<error, box>>.
viewbox_of_parts(parts) ==
    IF \E i \in 1..Len(parts) : ~IsFloat(parts[i])
    THEN <<"ValueError: could not convert string to float", None>>
    ELSE IF Len(parts) # 4 THEN <<"ValueError: Invalid viewBox", None>>
    ELSE <<NoError, [i \in 1..4 |-> float(parts[i])]>>

parse_viewbox(viewbox, width, height) ==
    IF viewbox # None THEN viewbox_of_parts(split(viewbox, 1))
    ELSE IF width = None \/ height = None
    THEN <<"ValueError: Missing viewBox and width/height", None>>
    ELSE <<NoError, <<0, 0, width[1], height[1]>>>>

\* path_bbox(d), line 53, as a run followed to its end.
measure(d) == path_bbox_run(path_bbox_call(d))

RECURSIVE path_records(_)
\* The loop of lines 46-54, as far as it gets: an element without path data
\* is passed over; a path whose measuring raises or does not return ends it.
path_record(d, st) == [d |-> d, bbox |-> st.bbox, pc |-> st.pc, error |-> st.error]

path_records_after(record, ds) ==
    IF record.pc = "returned" THEN <<record>> \o path_records(ds) ELSE <<record>>

path_records(ds) ==
    IF ds = <<>> THEN <<>>
    ELSE IF Head(ds) = None THEN path_records(Tail(ds))
    ELSE path_records_after(path_record(Head(ds), measure(Head(ds))), Tail(ds))

\* A mutant of paths_outcome: an icon without a path is returned.
paths_outcome_lenient(paths) ==
    IF paths = <<>> THEN <<"returned", NoError>>
    ELSE IF paths[Len(paths)].pc = "returned" THEN <<"returned", NoError>>
    ELSE IF paths[Len(paths)].pc = "raised" THEN <<"raised", paths[Len(paths)].error>>
    ELSE <<"running", NoError>>

\* How the loop over the path elements ended.
paths_outcome(paths) ==
    IF paths = <<>> THEN <<"raised", "ValueError: No <path> elements found">>
    ELSE IF paths[Len(paths)].pc = "returned" THEN <<"returned", NoError>>
    ELSE IF paths[Len(paths)].pc = "raised" THEN <<"raised", paths[Len(paths)].error>>
    ELSE <<"running", NoError>>

Failed(error) == [outcome |-> "raised", error |-> error]

parsed(width, height, box, paths, outcome) ==
    IF box[1] # NoError THEN Failed(box[1])
    ELSE [outcome |-> outcome[1], error |-> outcome[2],
          width |-> width, height |-> height,
          min_x |-> box[2][1], min_y |-> box[2][2],
          vb_width |-> box[2][3], vb_height |-> box[2][4],
          paths |-> paths]

parse_root(doc, width, height, paths) ==
    parsed(width, height, parse_viewbox(doc.viewBox, width, height), paths,
           paths_outcome(paths))

\* parse_svg, lines 34-77.  outcome is "returned", "raised" or "running" (the
\* call does not return).
parse_svg(doc) ==
    IF ~doc.wellformed THEN Failed("ParseError")
    ELSE parse_root(doc, parse_length(doc.width), parse_length(doc.height),
                    path_records(doc.paths))

\* A 24 x 24 icon with one closed outline.
SquareIcon ==
    [wellformed |-> TRUE,
     width |-> <<"2", "4">>,
     height |-> <<"2", "4">>,
     viewBox |-> <<"0", " ", "0", " ", "2", "4", " ", "2", "4">>,
     paths |-> <<<<"M", "4", " ", "4", "H", "2", "0", "V", "2", "0", "H", "4", "Z">>>>]

\* An icon whose viewBox starts at (0, -24), with no declared size and a path element without data.
OffsetIcon ==
    [wellformed |-> TRUE,
     width |-> None,
     height |-> None,
     viewBox |-> <<"0", " ", "-", "2", "4", " ", "2", "4", " ", "2", "4">>,
     paths |-> <<<<"M", "2", " ", "-", "2", "0", "h", "1", "0", "v", "8", "h", "-", "1", "0", "z">>,
               <<>>>>]

\* An icon with a declared size in px and no viewBox, of a line and a curve.
SizedIcon ==
    [wellformed |-> TRUE,
     width |-> <<"4", "8", "p", "x">>,
     height |-> <<"4", "8", "p", "x">>,
     viewBox |-> None,
     paths |-> <<<<"M", "8", " ", "8", "L", "4", "0", " ", "2", "4">>,
               <<"M", "4", " ", "4", "c", "4", " ", "4", " ", "0", " ", "4", " ", "4", " ", "0">>>>]

\* An icon with comma-separated viewBox starting at (2, 1), twice as wide in dp, whose only path has no token.
ShiftedIcon ==
    [wellformed |-> TRUE,
     width |-> <<"4", "0">>,
     height |-> None,
     viewBox |-> <<"2", ",", "1", ",", "2", "0", ",", "1", "0">>,
     paths |-> <<<<"X">>>>]

\* An icon whose content is a single point.
PointIcon ==
    [wellformed |-> TRUE,
     width |-> <<"2", "4">>,
     height |-> <<"2", "4">>,
     viewBox |-> <<"0", " ", "0", " ", "2", "4", " ", "2", "4">>,
     paths |-> <<<<"M", "5", " ", "5">>>>]

\* A document with a viewBox and no path data.
EmptyIcon ==
    [wellformed |-> TRUE,
     width |-> None,
     height |-> None,
     viewBox |-> <<"0", " ", "0", " ", "2", "4", " ", "2", "4">>,
     paths |-> <<<<>>>>]

\* A document with neither a viewBox nor a height.
UnsizedIcon ==
    [wellformed |-> TRUE,
     width |-> <<"2", "4">>,
     height |-> None,
     viewBox |-> None,
     paths |-> <<<<"M", "4", " ", "4", "H", "2", "0", "V", "2", "0", "H", "4", "Z">>>>]

\* A document whose viewBox has three numbers.
ThreePartIcon ==
    [wellformed |-> TRUE,
     width |-> None,
     height |-> None,
     viewBox |-> <<"0", " ", "0", " ", "2", "4">>,
     paths |-> <<<<"M", "4", " ", "4", "H", "2", "0", "V", "2", "0", "H", "4", "Z">>>>]

\* An icon whose path has a number after its close command.
TrailingIcon ==
    [wellformed |-> TRUE,
     width |-> None,
     height |-> None,
     viewBox |-> <<"0", " ", "0", " ", "2", "4", " ", "2", "4">>,
     paths |-> <<<<"M", "0", " ", "0", "Z", " ", "7">>>>]

\* An icon whose path ends within a coordinate pair.
TruncatedIcon ==
    [wellformed |-> TRUE,
     width |-> None,
     height |-> None,
     viewBox |-> <<"0", " ", "0", " ", "2", "4", " ", "2", "4">>,
     paths |-> <<<<"M", "1">>>>]

\* A file that is not well-formed XML.
BrokenIcon ==
    [wellformed |-> FALSE,
     width |-> None,
     height |-> None,
     viewBox |-> None,
     paths |-> <<>>]

\* An icon whose viewBox has no width.
FlatIcon ==
    [wellformed |-> TRUE,
     width |-> None,
     height |-> None,
     viewBox |-> <<"0", " ", "0", " ", "0", " ", "2", "4">>,
     paths |-> <<<<"M", "4", " ", "4", "H", "2", "0", "V", "2", "0", "H", "4", "Z">>>>]

\* A document whose viewBox has four parts, one of them not a number.
WordIcon ==
    [wellformed |-> TRUE,
     width |-> <<"2", "4">>,
     height |-> <<"2", "4">>,
     viewBox |-> <<"0", " ", "0", " ", "a", " ", "2", "4">>,
     paths |-> <<<<"M", "4", " ", "4", "H", "2", "0", "V", "2", "0", "H", "4", "Z">>>>]

Documents ==
    {SquareIcon,
     OffsetIcon,
     SizedIcon,
     ShiftedIcon,
     PointIcon,
     EmptyIcon,
     UnsizedIcon,
     ThreePartIcon,
     TrailingIcon,
     TruncatedIcon,
     FlatIcon,
     WordIcon,
     BrokenIcon}

(***************************************************************************)
(* build_vector_xml, lines 729-973.  The layout is a record that grows     *)
(* stage by stage; scale and hole_scale are ratios.                        *)
(***************************************************************************)
\* value or default, for an optional number: None and 0 are falsy.
OrElse(value, default) == IF value # None /\ value[1] # 0 THEN value[1] ELSE default

RECURSIVE content_box(_)
\* The loops of lines 746-748 and 759-761: the union of the boxes of paths.
content_box(paths) ==
    IF paths = <<>> THEN None
    ELSE bbox_union(content_box(SubSeq(paths, 1, Len(paths) - 1)), paths[Len(paths)].bbox)

\* Lines 750-756.
overlay_box(overlay, box) ==
    IF box = None
    THEN <<overlay.min_x, overlay.min_y,
           overlay.min_x + overlay.vb_width, overlay.min_y + overlay.vb_height>>
    ELSE box

\* Lines 763-764.
base_box(base, box) == IF box = None THEN <<0, 0, base.vb_width, base.vb_height>> ELSE box

\* gap_dp * (base["vb_width"] / width_dp), lines 733-738.
to_view_units(dp, vb_width, width_dp) ==
    IF width_dp # 0 THEN Mul(dp, Ratio(vb_width, width_dp)) ELSE dp

\* Lines 730-766: the sizes, the gap in viewport units, the offsets that
\* normalise the two viewports and the two content boxes.
frame(base, overlay, scale, gap_dp, simplify_dp, width_dp) ==
    [scale |-> scale,
     width_dp |-> width_dp,
     height_dp |-> OrElse(base.height, base.vb_height),
     vb_width |-> base.vb_width,
     vb_height |-> base.vb_height,
     gap |-> to_view_units(gap_dp, base.vb_width, width_dp),
     simplify |-> to_view_units(simplify_dp, base.vb_width, width_dp),
     base_offset_x |-> -base.min_x,
     base_offset_y |-> -base.min_y,
     overlay_offset_x |-> -overlay.min_x,
     overlay_offset_y |-> -overlay.min_y,
     overlay_bbox |-> overlay_box(overlay, content_box(overlay.paths)),
     base_bbox |-> base_box(base, content_box(base.paths))]

\* A mutant of overlay_target: the overlay is anchored by its left edge.
overlay_target_left(vb_width, scaled) == <<vb_width - scaled[1], -scaled[2]>>

\* overlay_target_tx and overlay_target_ty, lines 781-782.
overlay_target(vb_width, scaled) == <<vb_width - scaled[3], -scaled[2]>>

\* Lines 766-775: the translation that centres the base content.
centred(f, shifted) ==
    [base_bbox_shifted |-> shifted,
     center_dx |-> f.vb_width \div 2 - (shifted[1] + shifted[3]) \div 2,
     center_dy |-> f.vb_height \div 2 - (shifted[2] + shifted[4]) \div 2,
     base_translate_x |-> f.base_offset_x + (f.vb_width \div 2 - (shifted[1] + shifted[3]) \div 2),
     base_translate_y |-> f.base_offset_y + (f.vb_height \div 2 - (shifted[2] + shifted[4]) \div 2)]

\* Lines 758 and 777-785: the translation that puts the scaled overlay in
\* the top right corner.
anchored(f, norm, target) ==
    [overlay_bbox_norm |-> norm,
     overlay_center_x |-> (norm[1] + norm[3]) \div 2,
     overlay_center_y |-> (norm[2] + norm[4]) \div 2,
     overlay_scaled_bbox |-> bbox_scale(norm, f.scale),
     overlay_translate_x |-> target[1],
     overlay_translate_y |-> target[2],
     max_dim |-> Max2(norm[3] - norm[1], norm[4] - norm[2])]

placed(f, norm) ==
    anchored(f, norm, overlay_target(f.vb_width, bbox_scale(norm, f.scale)))

\* A mutant of widened: the gap is added once, not on both sides.
widened_on_one_side(scale, gap, max_dim) ==
    IF max_dim <= 0 THEN scale
    ELSE Ratio(scale[1] * Ratio(max_dim + gap, max_dim)[1],
               scale[2] * Ratio(max_dim + gap, max_dim)[2])

\* scale * (1.0 + (2.0 * gap) / max_dim), lines 791-794.
widened(scale, gap, max_dim) ==
    IF max_dim <= 0 THEN scale
    ELSE Ratio(scale[1] * Ratio(max_dim + 2 * gap, max_dim)[1],
               scale[2] * Ratio(max_dim + 2 * gap, max_dim)[2])

\* A mutant of hole: the cut-out takes the translation of the overlay.
hole_uncentred(p, hole_scale) ==
    [hole_scale |-> hole_scale,
     hole_translate_x |-> p.overlay_translate_x,
     hole_translate_y |-> p.overlay_translate_y]

\* Lines 796-803: the translation that keeps the hole around the overlay.
hole(p, hole_scale) ==
    [hole_scale |-> hole_scale,
     hole_translate_x |-> Mul(p.overlay_center_x, p.scale) + p.overlay_translate_x
                          - Mul(p.overlay_center_x, hole_scale),
     hole_translate_y |-> Mul(p.overlay_center_y, p.scale) + p.overlay_translate_y
                          - Mul(p.overlay_center_y, hole_scale)]

with_hole(p) == p @@ hole(p, widened(p.scale, p.gap, p.max_dim))

with_places(f) ==
    f @@ centred(f, bbox_translate(f.base_bbox, f.base_offset_x, f.base_offset_y))
      @@ placed(f, bbox_translate(f.overlay_bbox, f.overlay_offset_x, f.overlay_offset_y))

\* Lines 730-803.
layout(base, overlay, scale, gap_dp, simplify_dp) ==
    with_hole(with_places(frame(base, overlay, scale, gap_dp, simplify_dp,
                                OrElse(base.width, base.vb_width))))

\* transform_path_data(d, scale, translate_x, translate_y), as a run
\* followed to its end: the string returned.
transformed(d, scale, translate_x, translate_y) ==
    Join(transform_run(transform_path_data_call(d, scale, translate_x, translate_y)).out)

\* The arguments of the transform of the overlay paths, lines 811-813.
overlay_transform(p) ==
    <<p.scale, Mul(p.overlay_offset_x, p.scale) + p.overlay_translate_x,
      Mul(p.overlay_offset_y, p.scale) + p.overlay_translate_y>>

\* The arguments of the transform of the hole paths, lines 894-896.
hole_transform(p) ==
    <<p.hole_scale, Mul(p.overlay_offset_x, p.hole_scale) + p.hole_translate_x,
      Mul(p.overlay_offset_y, p.hole_scale) + p.hole_translate_y>>

\* The arguments of the transform of the base paths, line 953.
base_transform(p) == <<<<1, 1>>, p.base_translate_x, p.base_translate_y>>

\* The path data of paths, each transformed with the arguments a.
transformed_paths(paths, a) ==
    [i \in 1..Len(paths) |-> transformed(paths[i].d, a[1], a[2], a[3])]

(***************************************************************************)
(* The cut-out, lines 819-898.  What shapely and svgpathtools do is not    *)
(* modelled: geometry says what they give, "unavailable" (the import       *)
(* fails), "raises" (a call into them raises), "no shapes" (no overlay     *)
(* path becomes a shape), "holes" (a hole outline, and no polygon of the   *)
(* base) or "holes and base" (a hole outline and the base cut by it).  The *)
(* outlines they give are the texts SmoothHole and SmoothBase.             *)
(***************************************************************************)
Geometries == {"unavailable", "raises", "no shapes", "holes", "holes and base"}

SmoothHole == <<"smooth hole outline">>

SmoothBase == <<"smooth base outline">>

\* A mutant of consults: the libraries are asked for whenever smoothing is.
consults_when_smooth(p, smooth) == smooth

\* Lines 822-825: whether try_import_smoothing is called.
consults(p, smooth) == p.gap > 0 /\ smooth

\* Lines 826-884.
smoothed(p, smooth, geometry) ==
    [consulted |-> consults(p, smooth),
     warning |-> consults(p, smooth) /\ geometry = "unavailable",
     raised |-> consults(p, smooth) /\ geometry = "raises",
     hole_paths |-> IF consults(p, smooth) /\ geometry \in {"holes", "holes and base"}
                    THEN <<SmoothHole>> ELSE <<>>,
     smooth_base_paths |-> IF consults(p, smooth) /\ geometry = "holes and base"
                           THEN <<SmoothBase>> ELSE <<>>,
     smooth_used |-> consults(p, smooth) /\ geometry = "holes and base"]

\* A mutant of with_holes: the algebraic holes are made without looking at
\* the gap.
with_holes_always(p, s, overlay) ==
    IF s.hole_paths = <<>>
    THEN [s EXCEPT !.hole_paths = transformed_paths(overlay.paths, hole_transform(p))]
    ELSE s

\* Lines 889-898: the algebraic holes, when there is a gap and no smooth hole.
with_holes(p, s, overlay) ==
    IF p.gap > 0 /\ s.hole_paths = <<>>
    THEN [s EXCEPT !.hole_paths = transformed_paths(overlay.paths, hole_transform(p))]
    ELSE s

\* Lines 946-963: the path data and the fill type of the base shape.
base_shape(p, s, base) ==
    IF s.smooth_base_paths # <<>>
    THEN [combined_base |-> Join(s.smooth_base_paths), fill_type |-> <<>>]
    ELSE [combined_base |-> Join(transformed_paths(base.paths, base_transform(p))
                                 \o s.hole_paths),
          fill_type |-> IF s.hole_paths # <<>> THEN <<"evenOdd">> ELSE <<>>]

\* Lines 900-905 and 965-973: the attributes of the vector element and the
\* path data of the overlay paths.
document(p, overlay) ==
    [width |-> fmt_number(p.width_dp) \o <<"d", "p">>,
     height |-> fmt_number(p.height_dp) \o <<"d", "p">>,
     viewportWidth |-> fmt_number(p.vb_width),
     viewportHeight |-> fmt_number(p.vb_height),
     overlay_paths |-> transformed_paths(overlay.paths, overlay_transform(p))]

rendered(p, s, base, overlay) ==
    IF s.raised THEN [outcome |-> "raised", error |-> "GEOSException", layout |-> p]
    ELSE [outcome |-> "returned", error |-> NoError, layout |-> p, cut |-> s,
          xml |-> document(p, overlay) @@ base_shape(p, s, base)]

cut_out(p, smooth, geometry, base, overlay) ==
    rendered(p, with_holes(p, smoothed(p, smooth, geometry), overlay), base, overlay)

build_vector_xml(base, overlay, scale, gap_dp, smooth, simplify_dp, geometry) ==
    cut_out(layout(base, overlay, scale, gap_dp, simplify_dp), smooth, geometry,
            base, overlay)

(***************************************************************************)
(* main, lines 1053-1188.  The command line is the record args; what the   *)
(* file system and the network hold is chosen when main gets to them.      *)
(***************************************************************************)
\* What an input argument may designate, lines 1031-1050 (and 976-1028).
Inputs == {"file", "missing file", "cached icon", "icon", "unknown icon"}

\* resolve_input_path, lines 1031-1050: the error raised, if any.
resolve_input_path(input) ==
    CASE input = "missing file" -> "ValueError: File not found"
      [] input = "unknown icon" -> "ValueError: Failed to download icon"
      [] OTHER -> NoError

\* The output file before main runs: absent, or there with this content.
OldOutput == <<"old output">>

\* The values given on the command line.
Arguments ==
    [scale : {<<0, 1>>, <<1, 2>>, <<2, 1>>, <<1, 3>>},
     gap : {-Den, 2 * Den},
     trim_distance : {None, <<-Den>>, <<0>>},
     smooth : BOOLEAN,
     sample_points : {5, 30},
     smooth_simplify : {-Den, Den \div 4},
     output_before : {None, OldOutput}]

Steps == {"resolve base", "resolve overlay", "parse base", "parse overlay", "build"}

NotYet == [outcome |-> "none"]

\* The locals of main when it starts; base_svg and overlay_svg are the
\* documents read from base_svg_path and overlay_svg_path; geometry is what
\* the polygon libraries turned out to give when build_vector_xml ran;
\* completed and failed record the steps of the try block that have returned
\* and the one that raised.
main_call ==
    [pc |-> "parse_args", gap |-> 0, base_svg |-> None, overlay_svg |-> None,
     base |-> NotYet, overlay |-> NotYet, geometry |-> "none",
     built |-> NotYet, error |-> NoError, exit_status |-> None,
     completed |-> {}, failed |-> NoError]

\* parser.error, lines 1123-1128: argparse prints the message and exits
\* with status 2.
parser_error(s, message) ==
    [s EXCEPT !.pc = "exited", !.error = message, !.exit_status = <<2>>]

\* Lines 1122-1128.
parse_args(s, a) ==
    IF a.scale[1] <= 0 THEN parser_error(s, "--scale must be > 0")
    ELSE IF a.sample_points < 6 THEN parser_error(s, "--sample-points must be >= 6")
    ELSE IF a.smooth_simplify < 0 THEN parser_error(s, "--smooth-simplify must be >= 0")
    ELSE [s EXCEPT !.pc = "resolve_base"]

\* A step of the try block raised: control goes to the handler of line 1170.
raised_in(s, step, error) == [s EXCEPT !.pc = "except", !.error = error, !.failed = step]

\* Lines 1137 and 1138.
resolved(s, step, error, next) ==
    IF error # NoError THEN raised_in(s, step, error)
    ELSE [s EXCEPT !.pc = next, !.completed = @ \cup {step}]

\* Line 1154.
effective_gap(a) == IF a.trim_distance = None THEN a.gap ELSE a.trim_distance[1]

\* Lines 1159 and 1160: a parse_svg call raised, returned, or does not return.
after_parse(s, step, icon, next) ==
    IF icon.outcome = "raised" THEN raised_in(s, step, icon.error)
    ELSE IF icon.outcome = "running" THEN [s EXCEPT !.pc = "running"]
    ELSE [s EXCEPT !.pc = next, !.completed = @ \cup {step}]

\* Lines 1161-1169.
after_build(s, built) ==
    IF built.outcome = "raised" THEN raised_in(s, "build", built.error)
    ELSE [s EXCEPT !.pc = "write", !.built = built, !.completed = @ \cup {"build"}]

\* A mutant of handle_exception: the handler returns 0.
handle_exception_returning_0(s) == [s EXCEPT !.pc = "exited", !.exit_status = <<0>>]

\* Lines 1170-1176.
handle_exception(s) == [s EXCEPT !.pc = "exited", !.exit_status = <<1>>]

\* Lines 1178-1188, and the exit of the interpreter with status 1 on the
\* OSError that makedirs or open raises when the file cannot be written.
written(s, writable) ==
    IF writable THEN [s EXCEPT !.pc = "exited", !.exit_status = <<0>>]
    ELSE [s EXCEPT !.pc = "exited", !.exit_status = <<1>>, !.error = "OSError"]
(***************************************************************************)
(* download_material_icons.py.  An icon name and a line of the list file   *)
(* are texts (sequences of characters); files is the set of the icon names *)
(* whose .svg file is in the output directory.                             *)
(***************************************************************************)
Palette == <<"p", "a", "l">>

Star == <<"s", "t", "a", "r">>

Piano == <<"p", "i", "a", "n", "o">>

IconNames == {Palette, Star, Piano}

\* The characters str.strip() removes.
Whitespace == {" ", "\n", "\t"}

RECURSIVE lstrip(_)
lstrip(s) == IF s # <<>> /\ s[1] \in Whitespace THEN lstrip(Tail(s)) ELSE s

RECURSIVE strip_end(_)
strip_end(s) ==
    IF s # <<>> /\ s[Len(s)] \in Whitespace THEN strip_end(SubSeq(s, 1, Len(s) - 1)) ELSE s

\* line.strip(), line 137.
strip(line) == strip_end(lstrip(line))

RECURSIVE names_in(_)
\* Lines 136-139: the lines of the list file that are neither blank nor a
\* comment, stripped.
names_in(lines) ==
    IF lines = <<>> THEN <<>>
    ELSE IF strip(lines[1]) # <<>> /\ strip(lines[1])[1] # "#"
         THEN <<strip(lines[1])>> \o names_in(Tail(lines))
         ELSE names_in(Tail(lines))

RECURSIVE unique(_, _)
\* Lines 150-155: the names in the order of their first occurrence; seen is
\* the set of the names met so far.
unique(icon_names, seen) ==
    IF icon_names = <<>> THEN <<>>
    ELSE IF icon_names[1] \notin seen
         THEN <<icon_names[1]>> \o unique(Tail(icon_names), seen \cup {icon_names[1]})
         ELSE unique(Tail(icon_names), seen)

\* What the request for an icon may meet: status 200, another status, or an
\* exception (of the request, the decompression or the write).
Responses == {"200", "204", "exception"}

NoResult == [icon_name |-> <<>>, success |-> FALSE, status |-> "none"]

\* download_icon, lines 15-63: what it returns.
download_icon(icon_name, files, overwrite, response) ==
    IF ~overwrite /\ icon_name \in files
    THEN [icon_name |-> icon_name, success |-> TRUE, status |-> "cached"]
    ELSE IF response = "200"
    THEN [icon_name |-> icon_name, success |-> TRUE, status |-> "downloaded"]
    ELSE IF response = "204"
    THEN [icon_name |-> icon_name, success |-> FALSE, status |-> "HTTP 204"]
    ELSE [icon_name |-> icon_name, success |-> FALSE, status |-> "exception"]

\* download_icon, lines 54-57: the files of the output directory after it.
files_after(files, result) ==
    IF result.status = "downloaded" THEN files \cup {result.icon_name} ELSE files

\* A mutant of counter: a cached icon is counted as downloaded as well.
counter_without_else(result) ==
    IF result.success
    THEN IF result.status = "cached" THEN {"cached_count", "success_count"}
         ELSE {"success_count"}
    ELSE {"fail_count"}

\* Lines 176-182 and 189-195: the counters a result adds one to.
counter(result) ==
    IF result.success
    THEN IF result.status = "cached" THEN {"cached_count"} ELSE {"success_count"}
    ELSE {"fail_count"}

\* The locals of main after a result has been counted; counted is the list
\* of the results counted so far, each with the counters it was added to.
tally(b, result) ==
    [b EXCEPT !.success_count = IF "success_count" \in counter(result) THEN @ + 1 ELSE @,
              !.cached_count = IF "cached_count" \in counter(result) THEN @ + 1 ELSE @,
              !.fail_count = IF "fail_count" \in counter(result) THEN @ + 1 ELSE @,
              !.counted = Append(@, [icon_name |-> result.icon_name,
                                     counters |-> counter(result)])]

\* The longest list of icon names given on the command line.
MaxIcons == 3

RECURSIVE ListsOf(_)
ListsOf(n) ==
    IF n = 0 THEN {<<>>}
    ELSE {Append(l, i) : l \in ListsOf(n - 1), i \in IconNames}

\* The list file: none given, one that cannot be read, or one with a
\* comment, a blank line and two names, one of them padded.
NoFile == [given |-> FALSE, readable |-> FALSE, lines |-> <<>>]

UnreadableFile == [given |-> TRUE, readable |-> FALSE, lines |-> <<>>]

ListFile ==
    [given |-> TRUE, readable |-> TRUE,
     lines |-> << <<"#", " ", "x", "\n">>, <<"\n">>, <<"s", "t", "a", "r", "\n">>,
                  <<" ", "p", "i", "a", "n", "o", " ", "\n">> >>]

\* The command line, lines 86-123.
BatchArguments ==
    [icons : UNION {ListsOf(n) : n \in 0..MaxIcons},
     file : {NoFile, UnreadableFile, ListFile},
     jobs : {0, 1, 2, 3},
     overwrite : BOOLEAN]

\* No command line.
NoArguments == [icons |-> <<>>, file |-> NoFile, jobs |-> 1, overwrite |-> FALSE]

\* main when it starts on a command line, with the files of the output
\* directory.  futures is the list of the futures of the pool, one per
\* submitted icon, each "queued", "running" or "done" with its result;
\* yielded is the set of the futures as_completed has given; next is the
\* position of the sequential loop; submitted is the list of the names
\* download_icon was submitted or called with.
batch_call(a, files) ==
    [pc |-> "collect", args |-> a, files |-> files,
     icon_names |-> <<>>, unique_icons |-> <<>>,
     success_count |-> 0, fail_count |-> 0, cached_count |-> 0,
     futures |-> <<>>, yielded |-> {}, next |-> 1,
     submitted |-> <<>>, counted |-> <<>>, summary |-> FALSE,
     exit_status |-> None]

\* Lines 131-147: the names of the command line, then those of the file.  A
\* file that cannot be read ends main with 1, no name at all with
\* parser.error, which exits with 2.
collected(b) ==
    IF b.args.file.given /\ ~b.args.file.readable
    THEN [b EXCEPT !.pc = "exited", !.icon_names = b.args.icons, !.exit_status = <<1>>]
    ELSE IF b.args.icons \o names_in(b.args.file.lines) = <<>>
    THEN [b EXCEPT !.pc = "exited", !.exit_status = <<2>>]
    ELSE [b EXCEPT !.pc = "dedup", !.icon_names = b.args.icons \o names_in(b.args.file.lines)]

\* Lines 166-172: one future per icon, in the order of unique_icons.
submit_all(unique_icons) ==
    [i \in 1..Len(unique_icons) |-> [icon |-> unique_icons[i], state |-> "queued", result |-> NoResult]]

\* Lines 150-172: the distinct names, the counters at 0, and with more than
\* one job every icon submitted to the pool.
deduplicated(b, unique_icons) ==
    IF b.args.jobs > 1
    THEN [b EXCEPT !.pc = "parallel", !.unique_icons = unique_icons,
                   !.futures = submit_all(unique_icons), !.submitted = unique_icons]
    ELSE [b EXCEPT !.pc = "sequential", !.unique_icons = unique_icons]

\* Lines 185-195: one pass of the sequential loop.
sequential_pass(b, response) ==
    [tally(b, download_icon(b.unique_icons[b.next], b.files, b.args.overwrite, response))
       EXCEPT !.next = @ + 1,
              !.submitted = Append(@, b.unique_icons[b.next]),
              !.files = files_after(@, download_icon(b.unique_icons[b.next], b.files,
                                                     b.args.overwrite, response))]

\* The futures in a state.
In(b, state) == {i \in 1..Len(b.futures) : b.futures[i].state = state}

\* The call a worker runs returns: download_icon, lines 15-63.
finished(b, i, response) ==
    [b EXCEPT !.futures[i].state = "done",
              !.futures[i].result =
                  download_icon(b.futures[i].icon, b.files, b.args.overwrite, response),
              !.files = files_after(@, download_icon(b.futures[i].icon, b.files,
                                                     b.args.overwrite, response))]

\* Lines 174-182: as_completed gives a completed future and its result is
\* counted.
completed(b, i) == [tally(b, b.futures[i].result) EXCEPT !.yielded = @ \cup {i}]

\* Lines 198-206.
summarised(b) ==
    [b EXCEPT !.pc = "exited", !.summary = TRUE,
              !.exit_status = IF b.fail_count = 0 THEN <<0>> ELSE <<1>>]

(***************************************************************************)
(* State.                                                                  *)
(*   path_data  the path-data string given to both interpreters            *)
(*   m          the run of path_bbox(path_data)                            *)
(*   t          the run of transform_path_data(path_data, scale, tx, ty)   *)
(*   r          the run of path_bbox on the string t returned              *)
(*   args       the command line of main                                   *)
(*   run        the locals of main and its position                        *)
(*   output     the content of the output file, None while there is none   *)
(*   batch      the locals of the batch downloader's main, its position,   *)
(*              the futures of its pool and the output directory           *)
(***************************************************************************)
VARIABLES path_data, m, t, r, args, run, output, batch

vars == <<path_data, m, t, r, args, run, output, batch>>

pathVars == <<path_data, m, t, r>>

mainVars == <<args, run, output>>

batchVars == <<batch>>

\* The batch downloader is not running.
NoBatch == batch = [batch_call(NoArguments, {}) EXCEPT !.pc = "idle"]

\* main is not running.
NoMain ==
    /\ args = [output_before |-> None]
    /\ run = [main_call EXCEPT !.pc = "idle"]
    /\ output = None

\* The path interpreters are not running on their own.
NoPath ==
    /\ path_data = <<>>
    /\ m = Idle
    /\ t = [transform_path_data_call(<<>>, <<1, 1>>, 0, 0) EXCEPT !.pc = "idle"]
    /\ r = Idle

Init ==
    /\ path_data \in Paths
    /\ m = path_bbox_call(path_data)
    /\ \E a \in Transforms : t = transform_path_data_call(path_data, a[1], a[2], a[3])
    /\ r = Idle
    /\ NoMain
    /\ NoBatch

\* path_bbox: its entry, then one pass of its loop.  The two runs advance
\* in step.
BboxStep ==
    /\ Running(m)
    /\ ~Running(t) \/ m.iters <= t.iters
    /\ m' = path_bbox_iter(m)
    /\ UNCHANGED <<path_data, t, r, mainVars, batchVars>>

\* transform_path_data: its entry, then one pass of its loop.
TransformStep ==
    /\ Running(t)
    /\ ~Running(m) \/ t.iters < m.iters
    /\ t' = transform_iter(t)
    /\ UNCHANGED <<path_data, m, r, mainVars, batchVars>>

\* path_bbox is called on the string transform_path_data returned.
Remeasure ==
    /\ t.pc = "returned"
    /\ r.pc = "idle"
    /\ r' = path_bbox_call(Join(t.out))
    /\ UNCHANGED <<path_data, m, t, mainVars, batchVars>>

RemeasureStep ==
    /\ Running(r)
    /\ r' = path_bbox_iter(r)
    /\ UNCHANGED <<path_data, m, t, mainVars, batchVars>>

Next == BboxStep \/ TransformStep \/ Remeasure \/ RemeasureStep

Spec == Init /\ [][Next]_vars

(***************************************************************************)
(* transform_path_data on its own, as build_vector_xml calls it.           *)
(***************************************************************************)
InitTransform ==
    /\ path_data \in Paths
    /\ m = Idle
    /\ \E a \in Transforms : t = transform_path_data_call(path_data, a[1], a[2], a[3])
    /\ r = Idle
    /\ NoMain
    /\ NoBatch

\* transform_path_data: its entry, then one pass of its loop.
TransformPass ==
    /\ Running(t)
    /\ t' = transform_iter(t)
    /\ UNCHANGED <<path_data, m, r, mainVars, batchVars>>

NextTransform == TransformPass

SpecTransform == InitTransform /\ [][NextTransform]_vars

InitMain ==
    /\ NoPath
    /\ args \in Arguments
    /\ run = main_call
    /\ output = args.output_before
    /\ NoBatch

\* Lines 1122-1128.
ParseArgs ==
    /\ run.pc = "parse_args"
    /\ run' = parse_args(run, args)
    /\ UNCHANGED <<pathVars, batchVars, args, output>>

\* Line 1137.
ResolveBase ==
    /\ run.pc = "resolve_base"
    /\ \E input \in Inputs :
          run' = resolved(run, "resolve base", resolve_input_path(input), "resolve_overlay")
    /\ UNCHANGED <<pathVars, batchVars, args, output>>

\* Lines 1138-1157.
ResolveOverlay ==
    /\ run.pc = "resolve_overlay"
    /\ \E input \in Inputs :
          run' = [resolved(run, "resolve overlay", resolve_input_path(input), "parse_base")
                    EXCEPT !.gap = effective_gap(args)]
    /\ UNCHANGED <<pathVars, batchVars, args, output>>

\* Line 1159.
ParseBase ==
    /\ run.pc = "parse_base"
    /\ \E doc \in Documents :
          run' = [after_parse(run, "parse base", parse_svg(doc), "parse_overlay")
                    EXCEPT !.base = parse_svg(doc), !.base_svg = doc]
    /\ UNCHANGED <<pathVars, batchVars, args, output>>

\* Line 1160.
ParseOverlay ==
    /\ run.pc = "parse_overlay"
    /\ \E doc \in Documents :
          run' = [after_parse(run, "parse overlay", parse_svg(doc), "build")
                    EXCEPT !.overlay = parse_svg(doc), !.overlay_svg = doc]
    /\ UNCHANGED <<pathVars, batchVars, args, output>>

\* Lines 1161-1169.
Build ==
    /\ run.pc = "build"
    /\ \E geometry \in Geometries :
          run' = [after_build(run, build_vector_xml(run.base, run.overlay, args.scale,
                                                    run.gap, args.smooth,
                                                    args.smooth_simplify, geometry))
                    EXCEPT !.geometry = geometry]
    /\ UNCHANGED <<pathVars, batchVars, args, output>>

\* Lines 1170-1176.
Except ==
    /\ run.pc = "except"
    /\ run' = handle_exception(run)
    /\ UNCHANGED <<pathVars, batchVars, args, output>>

\* Lines 1178-1188.
Write ==
    /\ run.pc = "write"
    /\ \E writable \in BOOLEAN :
          /\ run' = written(run, writable)
          /\ output' = IF writable THEN run.built.xml ELSE output
    /\ UNCHANGED <<pathVars, batchVars, args>>

NextMain ==
    \/ ParseArgs
    \/ ResolveBase
    \/ ResolveOverlay
    \/ ParseBase
    \/ ParseOverlay
    \/ Build
    \/ Except
    \/ Write

SpecMain == InitMain /\ [][NextMain]_vars

(***************************************************************************)
(* The batch downloader: main of download_material_icons.py, lines 66-206, *)
(* with the workers of its pool.                                           *)
(***************************************************************************)
InitBatch ==
    /\ NoPath
    /\ NoMain
    /\ \E a \in BatchArguments, files \in {{}, {Star}} : batch = batch_call(a, files)

\* Lines 131-147.
CollectNames ==
    /\ batch.pc = "collect"
    /\ batch' = collected(batch)
    /\ UNCHANGED <<pathVars, mainVars>>

\* Lines 150-172.
Deduplicate ==
    /\ batch.pc = "dedup"
    /\ batch' = deduplicated(batch, unique(batch.icon_names, {}))
    /\ UNCHANGED <<pathVars, mainVars>>

\* Lines 185-195: the next icon is downloaded and counted.
SequentialDownload ==
    /\ batch.pc = "sequential"
    /\ batch.next <= Len(batch.unique_icons)
    /\ \E response \in Responses : batch' = sequential_pass(batch, response)
    /\ UNCHANGED <<pathVars, mainVars>>

\* A worker that is free takes the oldest queued call: the pool has at most
\* jobs workers (line 166).
WorkerStart ==
    /\ batch.pc = "parallel"
    /\ In(batch, "queued") # {}
    /\ Cardinality(In(batch, "running")) < batch.args.jobs
    /\ batch' = [batch EXCEPT !.futures[CHOOSE i \in In(batch, "queued") :
                                            \A j \in In(batch, "queued") : i <= j].state
                                  = "running"]
    /\ UNCHANGED <<pathVars, mainVars>>

\* A running call returns, in any order.
WorkerFinish ==
    /\ batch.pc = "parallel"
    /\ \E i \in In(batch, "running"), response \in Responses :
          batch' = finished(batch, i, response)
    /\ UNCHANGED <<pathVars, mainVars>>

\* Lines 174-182: a completed future is given by as_completed and counted.
AsCompleted ==
    /\ batch.pc = "parallel"
    /\ \E i \in In(batch, "done") \ batch.yielded : batch' = completed(batch, i)
    /\ UNCHANGED <<pathVars, mainVars>>

\* Lines 198-206, once the loop over the icons or over the futures has ended.
Summary ==
    /\ \/ batch.pc = "sequential" /\ batch.next > Len(batch.unique_icons)
       \/ batch.pc = "parallel" /\ batch.yielded = 1..Len(batch.futures)
    /\ batch' = summarised(batch)
    /\ UNCHANGED <<pathVars, mainVars>>

NextBatch ==
    \/ CollectNames
    \/ Deduplicate
    \/ SequentialDownload
    \/ WorkerStart
    \/ WorkerFinish
    \/ AsCompleted
    \/ Summary

SpecBatch == InitBatch /\ [][NextBatch]_vars

(***************************************************************************)
(* Properties of the path interpreters.                                    *)
(***************************************************************************)
Runs == {m, t, r}

\* C1: the loops of path_bbox and transform_path_data terminate: every pass
\* through a loop body consumes at least one token, also when a close
\* command is followed by numbers, so a run that has not failed never made
\* more passes than it consumed tokens.
C1_EveryPassConsumesAToken == \A st \in Runs : st.pc # "raised" => st.iters <= st.index

\* The letters of the input alphabet that are neither one of the twenty
\* commands nor the exponent mark of a number.
UnsupportedLetters == Letters \ (CommandLetters \cup {"e", "E"})

HasUnsupportedLetter(data) == \E i \in 1..Len(data) : data[i] \in UnsupportedLetters

\* C4: a path with a letter that is none of the twenty supported commands
\* fails, in measuring and in transforming: neither run returns as if the
\* letter were not there.
C4_UnsupportedLetterFails ==
    HasUnsupportedLetter(path_data) => m.pc # "returned" /\ t.pc # "returned"

\* C5: a non-empty path whose tokenization has no token fails as malformed
\* path data, in measuring and in transforming; it is not taken for an empty
\* path.
C5_NoTokenIsMalformed ==
    (path_data # <<>> /\ m.tokens = <<>>) =>
        m.pc \in {"call", "raised"} /\ t.pc \in {"call", "raised"}

\* The number at position j of the tokens (0 past their end).
NumberAt(tokens, j) == IF j <= Len(tokens) THEN float(tokens[j]) ELSE 0

RECURSIVE Polyline(_, _, _, _, _)
\* The vertices of a path of moves, lines and closes, read off its tokens
\* from position i on by the SVG path grammar: the target of every move, both
\* ends of every line, and the sub-path start every close returns to.  cmd is
\* the command in force, cur the current point, start the sub-path start.
PolylineFrom(tokens, j, c, cur, start, a, b) ==
    CASE c = "M" -> {<<a, b>>} \cup Polyline(tokens, j + 2, "L", <<a, b>>, <<a, b>>)
      [] c = "m" -> {<<cur[1] + a, cur[2] + b>>}
                    \cup Polyline(tokens, j + 2, "l", <<cur[1] + a, cur[2] + b>>,
                                  <<cur[1] + a, cur[2] + b>>)
      [] c = "L" -> {cur, <<a, b>>} \cup Polyline(tokens, j + 2, c, <<a, b>>, start)
      [] c = "l" -> {cur, <<cur[1] + a, cur[2] + b>>}
                    \cup Polyline(tokens, j + 2, c, <<cur[1] + a, cur[2] + b>>, start)
      [] c = "H" -> {cur, <<a, cur[2]>>} \cup Polyline(tokens, j + 1, c, <<a, cur[2]>>, start)
      [] c = "h" -> {cur, <<cur[1] + a, cur[2]>>}
                    \cup Polyline(tokens, j + 1, c, <<cur[1] + a, cur[2]>>, start)
      [] c = "V" -> {cur, <<cur[1], a>>} \cup Polyline(tokens, j + 1, c, <<cur[1], a>>, start)
      [] c = "v" -> {cur, <<cur[1], cur[2] + a>>}
                    \cup Polyline(tokens, j + 1, c, <<cur[1], cur[2] + a>>, start)
      [] c \in {"Z", "z"} -> {start} \cup Polyline(tokens, j, c, start, start)
      [] OTHER -> {}

Polyline(tokens, i, cmd, cur, start) ==
    IF i > Len(tokens) THEN {}
    ELSE IF IsLetterToken(tokens[i])
    THEN PolylineFrom(tokens, i + 1, tokens[i][1], cur, start,
                      NumberAt(tokens, i + 1), NumberAt(tokens, i + 2))
    ELSE PolylineFrom(tokens, i, cmd, cur, start,
                      NumberAt(tokens, i), NumberAt(tokens, i + 1))

Vertices(tokens) == Polyline(tokens, 1, NoCmd, <<0, 0>>, <<0, 0>>)

Least(S) == CHOOSE v \in S : \A w \in S : v <= w

Greatest(S) == CHOOSE v \in S : \A w \in S : v >= w

\* The smallest box around the points P, None when there is no point.
BoxAround(P) ==
    IF P = {} THEN None
    ELSE <<Least({q[1] : q \in P}), Least({q[2] : q \in P}),
           Greatest({q[1] : q \in P}), Greatest({q[2] : q \in P})>>

LineLetters == {"M", "m", "L", "l", "H", "h", "V", "v", "Z", "z"}

LinesOnly(tokens) ==
    \A i \in 1..Len(tokens) : IsLetterToken(tokens[i]) => tokens[i][1] \in LineLetters

LineBoxIsTight(st) ==
    (st.pc = "returned" /\ LinesOnly(st.tokens)) => st.bbox = BoxAround(Vertices(st.tokens))

\* C6: for a path of M, L, H, V and Z commands only (of either case), the box
\* path_bbox returns is the minimum and maximum of x and of y over all its
\* resolved vertices: every move target, every line end and the sub-path
\* start each close returns to.
C6_LineBoxIsVertexHull == LineBoxIsTight(m) /\ LineBoxIsTight(r)

\* C6 witness: a measured path of a move and a relative line whose box has
\* an extent.
C6_Witness ==
    /\ m.pc = "returned"
    /\ LinesOnly(m.tokens)
    /\ Len(m.segs) = 2
    /\ m.segs[1].cmd = "M"
    /\ m.segs[2].cmd \in {"l", "h", "v"}
    /\ m.bbox[1] < m.bbox[3] \/ m.bbox[2] < m.bbox[4]

CurveLetters == {"C", "c", "S", "s", "Q", "q", "T", "t"}

ArcFree(tokens) ==
    \A i \in 1..Len(tokens) : tokens[i][1] \notin {"A", "a"}

MoveFirst(tokens) == tokens # <<>> => tokens[1][1] \in {"M", "m"}

\* translate(scale(box, k), tx, ty) for the arguments of the transforming run.
Mapped(box) == bbox_translate(bbox_scale(box, t.scale), t.translate_x, t.translate_y)

\* Both runs of path_bbox returned boxes that are the boxes of the code.
Measured == m.pc = "returned" /\ r.pc = "returned" /\ m.exact /\ r.exact

\* C7 as stated: for an arc-free path, measuring the transformed path gives
\* exactly the box of the original path, scaled and then translated.
C7_BoxCommutesExactly == (Measured /\ ArcFree(m.tokens)) => r.bbox = Mapped(m.bbox)

\* What rounding a coordinate to four decimals can change it by: 0.00005.
HalfUnit == Den \div 20000

Near(a, b) ==
    IF a = None \/ b = None THEN a = b
    ELSE \A i \in 1..4 : Abs(a[i] - b[i]) <= HalfUnit

\* C7, amended: for an arc-free path that begins with a move, every bound of
\* the box of the transformed path is within 0.00005 (the rounding of the
\* emitted coordinates to four decimals) of the bound of the box of the
\* original path, scaled and then translated.
C7_BoxCommutesWithinRounding ==
    (Measured /\ ArcFree(m.tokens) /\ MoveFirst(m.tokens)) => Near(r.bbox, Mapped(m.bbox))

\* C7 witness: a move and a curve, halved and translated, measured both ways.
C7_Witness ==
    /\ Measured
    /\ MoveFirst(m.tokens)
    /\ Len(m.segs) = 2
    /\ m.segs[2].cmd \in CurveLetters
    /\ t.scale = <<1, 2>>
    /\ r.bbox # None

\* The letter transform_path_data emits for a command.
Kind(cmd) ==
    CASE cmd \in {"M", "m"} -> "M"
      [] cmd \in {"L", "l", "H", "h", "V", "v"} -> "L"
      [] cmd \in {"C", "c", "S", "s"} -> "C"
      [] cmd \in {"Q", "q", "T", "t"} -> "Q"
      [] cmd \in {"A", "a"} -> "A"
      [] OTHER -> "Z"

\* A number as it reads after canonical formatting.
Printed(v) == float(fmt_number(v))

\* A segment as a command kind and its absolute numbers.
Shape(seg) == [kind |-> Kind(seg.cmd), pts |-> seg.pts]

\* The same with every number in canonical formatting (the two flags of an
\* arc are whole numbers and print as they are).
PrintedShape(seg) ==
    [kind |-> Kind(seg.cmd),
     pts |-> [i \in 1..Len(seg.pts) |->
                 IF Kind(seg.cmd) = "A" /\ i \in {4, 5} THEN seg.pts[i]
                 ELSE Printed(seg.pts[i])]]

IdentityTransform == t.scale = <<1, 1>> /\ t.translate_x = 0 /\ t.translate_y = 0

\* C8: transforming a valid path with scale 1 and translation (0, 0) gives a
\* path that parses back to the same sequence of segments, with the same
\* absolute end points and control points up to canonical formatting.
C8_IdentityPreservesGeometry ==
    (IdentityTransform /\ r.pc # "idle") =>
        /\ r.pc # "raised"
        /\ Len(r.segs) <= Len(t.segs)
        /\ \A i \in 1..Len(r.segs) : Shape(r.segs[i]) = PrintedShape(t.segs[i])
        /\ r.pc = "returned" => Len(r.segs) = Len(t.segs)

\* C8 witness: a relative cubic and a shorthand cubic went through the
\* identity transform and were parsed back.
C8_Witness ==
    /\ IdentityTransform
    /\ r.pc = "returned"
    /\ Len(t.segs) = 2
    /\ t.segs[1].cmd = "c"
    /\ t.segs[2].cmd = "s"

\* The first control point the reflection rule gives segment i of segs.
RuleControl(segs, i, letters, k) ==
    IF i > 1 /\ segs[i - 1].cmd \in letters
    THEN <<2 * segs[i].from[1] - segs[i - 1].pts[k],
           2 * segs[i].from[2] - segs[i - 1].pts[k + 1]>>
    ELSE segs[i].from

FollowsRule(segs) ==
    \A i \in 1..Len(segs) :
       /\ segs[i].cmd \in {"S", "s"} =>
             <<segs[i].pts[1], segs[i].pts[2]>> = RuleControl(segs, i, {"C", "c", "S", "s"}, 3)
       /\ segs[i].cmd \in {"T", "t"} =>
             <<segs[i].pts[1], segs[i].pts[2]>> = RuleControl(segs, i, {"Q", "q", "T", "t"}, 1)

\* What transform_path_data returns for the expanded example under the
\* arguments of the transforming run.
ExpandedOutput ==
    Join(transform_run(transform_path_data_call(ExpandedExample, t.scale,
                                                t.translate_x, t.translate_y)).out)

\* C9: the first control point of an S (a T) is the previous segment's last
\* control point reflected in the current point when the command just before
\* was a cubic (a quadratic) curve, and the current point otherwise; so
\* 'C 0,0 10,0 10,10 S 10,20 0,20' transforms to the same output as
\* 'C 0,0 10,0 10,10 C 10,20 10,20 0,20'.
C9_ShorthandReflection ==
    /\ FollowsRule(m.segs)
    /\ FollowsRule(t.segs)
    /\ (path_data = ShorthandExample /\ t.pc = "returned") => Join(t.out) = ExpandedOutput

\* C9 witness: the shorthand example was transformed.
C9_Witness ==
    /\ path_data = ShorthandExample
    /\ t.pc = "returned"
    /\ Len(t.segs) = 2
    /\ <<t.segs[2].pts[1], t.segs[2].pts[2]>> = <<10 * Den, 20 * Den>>

(***************************************************************************)
(* Properties of main and of the layout.                                   *)
(***************************************************************************)
\* A scale that is not positive, or a negative gap, however it was given.
InvalidParameter == args.scale[1] <= 0 \/ effective_gap(args) < 0

\* C2: an invalid parameter (a scale <= 0, or a negative gap given through
\* --gap or --trim-distance) is rejected before any icon is resolved or
\* parsed and before the layout runs: with such a parameter no step of the
\* composition is ever completed and no output is written.
C2_InvalidParameterRejected ==
    InvalidParameter =>
        /\ run.pc \in {"parse_args", "exited"}
        /\ run.completed = {}
        /\ output = args.output_before

\* C3: there is no partial success.  The output file changes only after the
\* two inputs were resolved, both parse_svg calls returned and
\* build_vector_xml returned, none of them having raised; and once one of
\* these steps has raised, the output file stays as it was and a run that
\* has ended has ended with exit status 1.
C3_NoPartialSuccess ==
    /\ output # args.output_before => run.completed = Steps /\ run.failed = NoError
    /\ run.failed # NoError =>
          /\ run.failed \in Steps \ run.completed
          /\ output = args.output_before
          /\ run.pc \in {"except", "exited"}
          /\ run.pc = "exited" => run.exit_status = <<1>>

\* C3 witness: a run whose second parse_svg call raised has ended, with the
\* output file that was there before it still in place.
C3_Witness ==
    /\ run.pc = "exited"
    /\ run.failed = "parse overlay"
    /\ run.completed = {"resolve base", "resolve overlay", "parse base"}
    /\ output = OldOutput

\* The layout has been computed and build_vector_xml has returned.
Built == run.built.outcome = "returned"

\* The raw overlay content box under the transform of the overlay paths.
PlacedOverlay ==
    bbox_translate(bbox_scale(run.built.layout.overlay_bbox,
                              overlay_transform(run.built.layout)[1]),
                   overlay_transform(run.built.layout)[2],
                   overlay_transform(run.built.layout)[3])

Rounding == 2

C11_NoGapNoHole ==
    (Built /\ run.gap = 0) =>
        /\ run.built.layout.hole_scale = args.scale
        /\ run.built.cut.hole_paths = <<>>
        /\ run.built.xml.fill_type = <<>>
        /\ run.built.xml.combined_base =
              Join(transformed_paths(run.base.paths, base_transform(run.built.layout)))

\* C11 witness: a composition with smoothing asked for and a gap of 0, whose
\* overlay content has an extent.
C11_Witness ==
    /\ Built
    /\ run.gap = 0
    /\ args.smooth
    /\ run.built.layout.max_dim > 0

\* The base content box has no area: no width or no height.
ZeroAreaBase ==
    \/ run.built.layout.base_bbox[1] = run.built.layout.base_bbox[3]
    \/ run.built.layout.base_bbox[2] = run.built.layout.base_bbox[4]

\* C12: when the content box of the base has zero area the layout completes
\* and centring is no shift: center_dx and center_dy are 0, so the base is
\* translated by (-min_x, -min_y) and nothing more.
C12_ZeroAreaBaseNotShifted ==
    (Built /\ ZeroAreaBase) =>
        /\ run.built.layout.center_dx = 0
        /\ run.built.layout.center_dy = 0
        /\ run.built.layout.base_translate_x = -run.base.min_x
        /\ run.built.layout.base_translate_y = -run.base.min_y

\* The content box of the base in the coordinates of its paths: the union
\* of the boxes of its paths or, when no path has a box, its viewport.
RawBaseBox ==
    IF content_box(run.base.paths) # None THEN content_box(run.base.paths)
    ELSE <<run.base.min_x, run.base.min_y,
           run.base.min_x + run.base.vb_width, run.base.min_y + run.base.vb_height>>

\* The base content box where the translation of the base paths puts it.
PlacedBase ==
    bbox_translate(RawBaseBox, base_transform(run.built.layout)[2],
                   base_transform(run.built.layout)[3])

\* C13: for every base icon, whatever the origin of its viewport and also
\* when no path has a box and the viewport stands for the content, the base
\* content box translated by base_translate has its centre in the centre of
\* the viewport, (vb_width / 2, vb_height / 2).
C13_BaseContentCentred ==
    Built =>
        /\ PlacedBase[1] + PlacedBase[3] = run.base.vb_width
        /\ PlacedBase[2] + PlacedBase[4] = run.base.vb_height

\* The icons parse_svg has returned to main so far.
ParsedIcons == {icon \in {run.base, run.overlay} : icon.outcome = "returned"}

\* C14: every icon parse_svg returns has a viewport of positive width and
\* positive height and at least one path record, whether its viewport comes
\* from a viewBox or from width and height.
C14_ParsedIconHasPositiveViewport ==
    \A icon \in ParsedIcons :
        icon.vb_width > 0 /\ icon.vb_height > 0 /\ Len(icon.paths) >= 1

\* The calls of parse_svg main has made so far: <<document, result>>.
ParseCalls ==
    {call \in {<<run.base_svg, run.base>>, <<run.overlay_svg, run.overlay>>} :
        call[2].outcome # "none"}

\* The errors of parse_svg that say the viewport cannot be had from the
\* document, and the one that says it has no path.
InvalidViewBox ==
    {"ValueError: Invalid viewBox",
     "ValueError: Missing viewBox and width/height",
     "ValueError: could not convert string to float"}

NoPathElements == "ValueError: No <path> elements found"

\* The blank- or comma-separated parts of a viewBox attribute.
Parts(viewBox) == split(viewBox, 1)

\* The viewBox attribute is four numbers.
FourNumbers(viewBox) ==
    Len(Parts(viewBox)) = 4 /\ \A i \in 1..4 : IsFloat(Parts(viewBox)[i])

\* No path element of the document has path data.
NoUsablePath(doc) == \A i \in 1..Len(doc.paths) : doc.paths[i] = None

FailsWith(result, errors) == result.outcome = "raised" /\ result.error \in errors

FormattedFor(st, seg) ==
    CASE Kind(seg.cmd) = "Z" -> {}
      [] Kind(seg.cmd) = "A" ->
           {Mul(seg.pts[1], st.scale), Mul(seg.pts[2], st.scale), seg.pts[3],
            transform_x(st, seg.pts[6]), transform_y(st, seg.pts[7])}
      [] OTHER ->
           {transform_x(st, seg.pts[i]) : i \in {j \in 1..Len(seg.pts) : j % 2 = 1}}
           \cup {transform_y(st, seg.pts[i]) : i \in {j \in 1..Len(seg.pts) : j % 2 = 0}}

Formatted(st) == UNION {FormattedFor(st, st.segs[i]) : i \in 1..Len(st.segs)}

HasPoint(text) == \E i \in 1..Len(text) : text[i] = "."

\* A text that ends neither in a decimal point nor in a zero of a fraction.
Minimal(text) ==
    /\ text # <<>>
    /\ text[Len(text)] # "."
    /\ HasPoint(text) => text[Len(text)] # "0"

\* C16: formatting is canonical and idempotent.  For every number v given to
\* fmt_number, formatting the number read back from fmt_number(v) gives
\* fmt_number(v) again; fmt_number(v) ends neither in a decimal point nor in
\* a zero of its fraction; a v within 1e-6 of an integer is written as that
\* integer; and a v that rounds to zero at four decimals, negative ones
\* included, is written as the integer 0.
C16_FormattingIsCanonical ==
    \A v \in Formatted(t) :
        /\ fmt_number(float(fmt_number(v))) = fmt_number(v)
        /\ Minimal(fmt_number(v))
        /\ Abs(v - round(v) * Den) < Den \div 1000000 => fmt_number(v) = str(round(v))
        /\ Round4(v) = 0 => fmt_number(v) = <<"0">>

\* build_vector_xml has been called.
BuildCalled == run.geometry # "none"

\* The gap of that call in viewport units, lines 733-738.
ViewGap ==
    to_view_units(run.gap, run.base.vb_width, OrElse(run.base.width, run.base.vb_width))

\* The call met every condition for smoothing but the libraries.
SmoothingUnavailable ==
    BuildCalled /\ args.smooth /\ ViewGap > 0 /\ run.geometry = "unavailable"

\* The holes of the algebraic strategy: every overlay path under the
\* transform of the cut-out.
AlgebraicHoles == transformed_paths(run.overlay.paths, hole_transform(run.built.layout))

\* C17: the choice of the cut-out strategy.  A smoothed outline is in the
\* output only when smoothing was asked for, the gap is positive and the
\* polygon libraries are there.  When smoothing was asked for with a positive
\* gap and the libraries are missing, the composition does not fail, a
\* warning is given and the algebraic holes are emitted, one per overlay
\* path, with the even-odd fill type.  When smoothing was not asked for or
\* the gap is not positive the libraries are never asked for (so the call
\* cannot fail in them either).
C17_CutOutStrategy ==
    /\ Built =>
          /\ (run.built.cut.smooth_used \/ run.built.cut.hole_paths = <<SmoothHole>>)
             => (args.smooth /\ ViewGap > 0 /\ run.geometry # "unavailable")
          /\ ~(args.smooth /\ ViewGap > 0) =>
                (~run.built.cut.consulted /\ ~run.built.cut.warning)
    /\ run.failed = "build" => (args.smooth /\ ViewGap > 0)
    /\ SmoothingUnavailable =>
          /\ Built
          /\ run.built.cut.warning
          /\ Len(run.built.cut.hole_paths) = Len(run.overlay.paths)
          /\ run.built.cut.hole_paths = AlgebraicHoles
          /\ run.built.xml.fill_type = <<"evenOdd">>
          /\ run.built.xml.combined_base =
                Join(transformed_paths(run.base.paths, base_transform(run.built.layout))
                     \o AlgebraicHoles)

\* C17 witness: smoothing was asked for with a positive gap, the libraries
\* were missing, and the composition was written with an overlay of two
\* paths.
C17_Witness ==
    /\ SmoothingUnavailable
    /\ run.pc = "exited"
    /\ run.exit_status = <<0>>
    /\ Len(run.overlay.paths) = 2

\* The raw overlay content box under the transform of the hole paths.
PlacedHole ==
    bbox_translate(bbox_scale(run.built.layout.overlay_bbox,
                              hole_transform(run.built.layout)[1]),
                   hole_transform(run.built.layout)[2],
                   hole_transform(run.built.layout)[3])

\* C18: for every overlay, scale > 0 and gap >= 0, the cut-out is concentric
\* with the placed overlay: the overlay content box under the scale and the
\* emitted translation of the cut-out has the centre it has under the scale
\* and the emitted translation of the overlay, on both axes (twice the
\* centre is compared: the sum of the two bounds).
C18_CutOutIsConcentric ==
    (Built /\ ViewGap >= 0) =>
        /\ PlacedHole[1] + PlacedHole[3] = PlacedOverlay[1] + PlacedOverlay[3]
        /\ PlacedHole[2] + PlacedHole[4] = PlacedOverlay[2] + PlacedOverlay[4]

\* C18, amended: the centre of the overlay content box under the transform
\* of the cut-out is its centre under the transform of the overlay up to the
\* rounding of the arithmetic: on each axis twice the one and twice the other
\* differ by no more than Rounding grid units.
C18_CutOutIsConcentricWithinRounding ==
    (Built /\ ViewGap >= 0) =>
        /\ Abs(PlacedHole[1] + PlacedHole[3] - PlacedOverlay[1] - PlacedOverlay[3])
              <= Rounding
        /\ Abs(PlacedHole[2] + PlacedHole[4] - PlacedOverlay[2] - PlacedOverlay[4])
              <= Rounding

\* C18 witness: a cut-out wider than the overlay was emitted for an overlay
\* whose viewport does not start at the origin and whose content is not in
\* the middle of it.
C18_Witness ==
    /\ Built
    /\ ViewGap > 0
    /\ run.built.layout.hole_scale # run.built.layout.scale
    /\ run.built.cut.hole_paths = AlgebraicHoles
    /\ run.overlay.min_y # 0
    /\ run.built.layout.overlay_center_x # run.overlay.vb_width \div 2

(***************************************************************************)
(* C19.  Measure mode and transform mode interpret every token sequence    *)
(* identically.                                                            *)
(***************************************************************************)
\* path_bbox and transform_path_data have made the same number of passes
\* through their loops on the same tokens.
SideBySide == m.pc \notin {"idle", "call"} /\ t.pc \notin {"idle", "call"} /\ m.iters = t.iters

\* The locals the two interpreters share.
Interpreted(st) ==
    <<st.index, st.x, st.y, st.start_x, st.start_y, st.last_cubic, st.last_quad, st.cmd>>

\* C19: run side by side on the same tokens, after every pass path_bbox and
\* transform_path_data have consumed the same tokens and hold the same
\* cursor, sub-path start, last_cubic, last_quad and command, and one has
\* raised exactly when the other has.
C19_ModesInterpretAlike ==
    SideBySide =>
        /\ (m.pc = "raised") = (t.pc = "raised")
        /\ (m.pc # "raised" /\ t.pc # "raised") => Interpreted(m) = Interpreted(t)

\* C19 apart from the arc whose radius squares to zero: on every other input
\* the two modes agree pass by pass.
C19_ModesAlikeButTinyArc ==
    (SideBySide /\ m.error # "ZeroDivisionError: float division by zero") =>
        /\ (m.pc = "raised") = (t.pc = "raised")
        /\ (m.pc # "raised" /\ t.pc # "raised") => Interpreted(m) = Interpreted(t)

(***************************************************************************)
(* C20.  The shorthand memories after each command.                        *)
(***************************************************************************)
\* The last command a run has executed: its letter, the cursor it started
\* from and its resolved numbers.
LastSeg(st) == st.segs[Len(st.segs)]

\* The memories a run holds are those its last command leaves: none after a
\* move, a close, a line or an arc; after a cubic curve its second control
\* point in last_cubic and nothing in last_quad; after a quadratic curve its
\* control point, given or reflected, in last_quad and nothing in last_cubic.
MemoryRule(st) ==
    IF st.segs = <<>> THEN st.last_cubic = None /\ st.last_quad = None
    ELSE /\ LastSeg(st).cmd \in {"M", "m", "Z", "z", "L", "l", "H", "h", "V", "v", "A", "a"}
            => st.last_cubic = None /\ st.last_quad = None
         /\ LastSeg(st).cmd \in {"C", "c", "S", "s"}
            => st.last_cubic = <<LastSeg(st).pts[3], LastSeg(st).pts[4]>> /\ st.last_quad = None
         /\ LastSeg(st).cmd \in {"Q", "q", "T", "t"}
            => st.last_quad = <<LastSeg(st).pts[1], LastSeg(st).pts[2]>> /\ st.last_cubic = None

\* C20: in every state of path_bbox and of transform_path_data the memories
\* follow the rule above, and at most one of last_cubic and last_quad is set.
C20_ShorthandMemoryRule ==
    \A st \in {m, t, r} :
        /\ MemoryRule(st)
        /\ st.last_cubic = None \/ st.last_quad = None

\* C20 happens: "q2 4 4 0 t4 0" has been interpreted, and after the t the
\* reflected control point (6, -4) is remembered as last_quad and last_cubic
\* is none, in both modes.
C20_Witness ==
    /\ m.pc = "returned"
    /\ Len(m.segs) = 2
    /\ m.segs[1].cmd = "q"
    /\ m.segs[2].cmd = "t"
    /\ m.last_quad = <<6 * Den, -4 * Den>>
    /\ m.last_cubic = None
    /\ t.pc = "returned"
    /\ t.last_quad = <<6 * Den, -4 * Den>>

(***************************************************************************)
(* C21.  What transform_path_data emits.                                   *)
(***************************************************************************)
\* The numbers the command emitted for a segment stands for: the end point
\* of a move or a line under the transform, for H and V with the held
\* coordinate taken from the cursor the segment started from; the control
\* points and the end point of a curve under the transform; for an arc the
\* radii times scale, the rotation, the two flags and the end point under
\* the transform.
EmittedNumbers(st, seg) ==
    CASE seg.cmd \in {"M", "m", "L", "l"} ->
           <<transform_x(st, seg.pts[1]), transform_y(st, seg.pts[2])>>
      [] seg.cmd \in {"H", "h"} ->
           <<transform_x(st, seg.pts[1]), transform_y(st, seg.from[2])>>
      [] seg.cmd \in {"V", "v"} ->
           <<transform_x(st, seg.from[1]), transform_y(st, seg.pts[2])>>
      [] seg.cmd \in {"Z", "z"} -> <<>>
      [] seg.cmd \in {"A", "a"} ->
           <<Mul(seg.pts[1], st.scale), Mul(seg.pts[2], st.scale), seg.pts[3],
             seg.pts[4] * Den, seg.pts[5] * Den,
             transform_x(st, seg.pts[6]), transform_y(st, seg.pts[7])>>
      [] OTHER ->
           [k \in 1..Len(seg.pts) |->
               IF k % 2 = 1 THEN transform_x(st, seg.pts[k]) ELSE transform_y(st, seg.pts[k])]

\* The numbers of an arc that are copied, not transformed: the rotation and
\* the two flags.
Copied(seg, k) == seg.cmd \in {"A", "a"} /\ k \in {3, 4, 5}

\* The text is one command: the absolute letter of the segment's kind, then
\* the numbers above, each to within the precision numbers are written with
\* and the copied ones to within slack.
EmittedAs(seg, numbers, tokens, slack) ==
    /\ Len(tokens) = 1 + Len(numbers)
    /\ tokens[1] = <<Kind(seg.cmd)>>
    /\ \A k \in 1..Len(numbers) :
           Abs(float(tokens[k + 1]) - numbers[k])
               <= (IF Copied(seg, k) THEN slack ELSE HalfUnit)

\* One command is emitted per interpreted segment, in the order of the input.
EmittedInOrder(st, slack) ==
    /\ Len(st.out) = Len(st.segs)
    /\ \A i \in 1..Len(st.segs) :
           LET numbers == EmittedNumbers(st, st.segs[i])
               tokens == tokenize(st.out[i])
           IN  EmittedAs(st.segs[i], numbers, tokens, slack)

\* C21 as stated: every command transform_path_data emits is absolute and
\* one of M, L, C, Q, A, Z, relative commands resolved against the cursor, H
\* and V written as L with the held coordinate of the cursor, an arc's radii
\* multiplied by scale and its rotation and flags copied unchanged; one
\* command per interpreted segment, in input order.
C21_EmittedAbsoluteArcCopied == EmittedInOrder(t, 0)

\* C21 amended: the same, with the rotation of an arc written as every
\* other number is, rounded to four decimals.
C21_EmittedAbsoluteArcRounded == EmittedInOrder(t, HalfUnit)

\* C21 happens: "h-1.5 A2 2 0 1 0 4 0" under scale 1/2 and translation
\* (3, -1.5) has been emitted as "L2.25 -1.5" and "A1 1 0 1 0 5 -1.5".
C21_Witness ==
    /\ t.pc = "returned"
    /\ Len(t.segs) = 2
    /\ t.segs[1].cmd = "h"
    /\ t.segs[2].cmd = "A"
    /\ t.scale = <<1, 2>>
    /\ t.out = << <<"L", "2", ".", "2", "5", " ", "-", "1", ".", "5">>,
                  <<"A", "1", " ", "1", " ", "0", " ", "1", " ", "0", " ", "5", " ", "-", "1", ".", "5">> >>

(***************************************************************************)
(* C22.  The margin of the cut-out around the overlay.                     *)
(***************************************************************************)
\* The gap in viewport units as the claim gives it: gap * viewWidth /
\* declaredWidth, or gap when the base declares no width.
GapInViewUnits ==
    IF run.base.width = None \/ run.base.width[1] = 0 THEN run.gap
    ELSE Mul(run.gap, Ratio(run.base.vb_width, run.base.width[1]))

\* A cut-out was laid out around an overlay whose content box has a positive
\* largest dimension, with a positive gap.
CutOutAround == Built /\ run.gap > 0 /\ run.built.layout.max_dim > 0

\* How far the cut-out box reaches past the placed overlay box: to the left,
\* to the top, to the right, to the bottom.
Margins ==
    <<PlacedOverlay[1] - PlacedHole[1], PlacedOverlay[2] - PlacedHole[2],
      PlacedHole[3] - PlacedOverlay[3], PlacedHole[4] - PlacedOverlay[4]>>

\* The sides across the larger dimension of the overlay content box: left
\* and right when it is at least as wide as high, top and bottom when it is
\* at least as high as wide.
AcrossLarger ==
    (IF run.built.layout.overlay_bbox[3] - run.built.layout.overlay_bbox[1]
          >= run.built.layout.overlay_bbox[4] - run.built.layout.overlay_bbox[2]
     THEN {1, 3} ELSE {})
    \cup
    (IF run.built.layout.overlay_bbox[4] - run.built.layout.overlay_bbox[2]
          >= run.built.layout.overlay_bbox[3] - run.built.layout.overlay_bbox[1]
     THEN {2, 4} ELSE {})

\* The cut-out box contains the placed overlay box up to slack, and across
\* the larger dimension each margin is overlayScale * gapInViewUnits up to
\* slack.
MarginsWithin(slack) ==
    /\ \A i \in 1..4 : Margins[i] >= -slack
    /\ \A i \in AcrossLarger :
           Abs(Margins[i] - Mul(GapInViewUnits, run.built.layout.scale)) <= slack

\* C22 as stated: for gap > 0 and an overlay content box with a positive
\* largest dimension the cut-out box contains the placed overlay box and,
\* along the larger dimension, extends past it by exactly overlayScale *
\* gapInViewUnits on each side.
C22_MarginIsScaledGap == CutOutAround => MarginsWithin(0)

\* C22 amended: the same up to the rounding of the arithmetic.
C22_MarginIsScaledGapWithinRounding == CutOutAround => MarginsWithin(Rounding)

\* C22 happens: a cut-out was laid out for a base whose declared width is
\* not its viewport width, with the overlay at half size, and the margin
\* across the larger dimension is neither zero nor the gap in viewport units.
C22_Witness ==
    /\ CutOutAround
    /\ run.base.width # None
    /\ run.base.width[1] # run.base.vb_width
    /\ GapInViewUnits # run.gap
    /\ run.built.layout.scale = <<1, 2>>
    /\ \A i \in AcrossLarger : Margins[i] > 0 /\ Margins[i] # GapInViewUnits

(***************************************************************************)
(* C23.  The batch downloader counts every distinct icon once.             *)
(***************************************************************************)
\* The distinct names requested.
Requested == {batch.icon_names[i] : i \in 1..Len(batch.icon_names)}

\* How often a name is in a list of names.
Times(name, names) == Cardinality({i \in 1..Len(names) : names[i] = name})

\* The counters a name has been added to, over all the results counted.
CountersOf(name) ==
    UNION {batch.counted[i].counters :
              i \in {j \in 1..Len(batch.counted) : batch.counted[j].icon_name = name}}

\* The download summary has been printed.
Summarised == batch.pc = "exited" /\ batch.summary

\* C23: whatever the list of the requested names and the number of jobs, and
\* in whatever order the workers complete, no name is ever submitted to
\* download_icon or counted twice, the three counters add up to the number
\* of the results counted, and when the summary is printed every distinct
\* name has been submitted once and counted in one of Downloaded, Cached and
\* Failed, the counters add up to the number of distinct names, and the exit
\* status is 0 exactly when Failed is 0.
C23_EveryIconCountedOnce ==
    /\ \A name \in IconNames :
          /\ Times(name, batch.submitted) <= 1
          /\ Times(name, [i \in 1..Len(batch.counted) |-> batch.counted[i].icon_name]) <= 1
          /\ Cardinality(CountersOf(name)) <= 1
    /\ batch.success_count + batch.cached_count + batch.fail_count = Len(batch.counted)
    /\ Summarised =>
          /\ \A name \in Requested :
                /\ Times(name, batch.submitted) = 1
                /\ Cardinality(CountersOf(name)) = 1
          /\ batch.success_count + batch.cached_count + batch.fail_count
                = Cardinality(Requested)
          /\ batch.success_count
                = Cardinality({name \in Requested : CountersOf(name) = {"success_count"}})
          /\ batch.cached_count
                = Cardinality({name \in Requested : CountersOf(name) = {"cached_count"}})
          /\ batch.fail_count
                = Cardinality({name \in Requested : CountersOf(name) = {"fail_count"}})
          /\ (batch.exit_status = <<0>>) = (batch.fail_count = 0)

\* C23 happens: three names were requested with a repeat among them, two
\* workers ran, the calls completed out of the order of submission, and the
\* summary shows one icon cached, one downloaded and one failed.
C23_Witness ==
    /\ Summarised
    /\ batch.args.jobs = 2
    /\ Len(batch.icon_names) > Cardinality(Requested)
    /\ Len(batch.counted) = 3
    /\ batch.counted[1].icon_name # batch.unique_icons[1]
    /\ batch.success_count = 1
    /\ batch.cached_count = 1
    /\ batch.fail_count = 1
    /\ batch.exit_status = <<1>>
====
